---- MODULE Spec2Model ----
(***************************************************************************)
(* Model of echo.py, the Ecosystem-Report-Generator tool server.           *)
(*                                                                         *)
(* Every tool operation is one action.  An invocation is computed as the   *)
(* code runs it: the driver calls it makes in order (connect, execute,     *)
(* commit, close), the text block it returns, and the rows it commits.     *)
(* Invocations are served one at a time: a tool runs when no response is   *)
(* pending, and Respond hands the pending response to the caller.          *)
(* The database driver is an open environment: the input `fault` of every  *)
(* action names the driver call of the invocation that raises (0: none).   *)
(* conn.cursor() and the fetch that follows an execute are folded into the *)
(* neighbouring connect / execute call: they raise to the same handler.    *)
(***************************************************************************)
EXTENDS Integers, Sequences, FiniteSets, Bags, TLC

VARIABLES
    assigned_reports,   \* committed rows of table assigned_reports (a bag)
    reports,            \* report prefixes committed through the stored procedure
    last,               \* the invocation whose response is pending:
                        \* op, args, trace of driver calls, exc, result
    sessions,           \* the assignment invocations running side by side,
                        \* each on its own connection: where each one is,
                        \* what it read and what it has inserted and not
                        \* committed
    snapshot            \* the engine reads the last committed version of a
                        \* row another connection holds locked, instead of
                        \* waiting for the lock

vars == <<assigned_reports, reports, last, sessions, snapshot>>

(***************************************************************************)
(* Bounds of the model.                                                    *)
(***************************************************************************)
MaxFault == 6       \* highest driver-call index that may raise
MaxItems == 2       \* longest list argument of a bulk operation

\* the calls that may raise in an invocation whose undisturbed run makes
\* the driver calls of `trace`: a later index names no call
FaultsFor(trace) == 0..(IF Len(trace) <= MaxFault THEN Len(trace) ELSE MaxFault)

(***************************************************************************)
(* Text.  Strings the code searches are sequences of characters.           *)
(***************************************************************************)
None == <<>>
Some(v) == <<v>>

\* Python's `p in s` on strings
Contains(s, p) ==
    \E i \in 0..(Len(s) - Len(p)) : SubSeq(s, i + 1, i + Len(p)) = p

LowerLetters ==
    <<"a","b","c","d","e","f","g","h","i","j","k","l","m",
      "n","o","p","q","r","s","t","u","v","w","x","y","z">>
UpperLetters ==
    <<"A","B","C","D","E","F","G","H","I","J","K","L","M",
      "N","O","P","Q","R","S","T","U","V","W","X","Y","Z">>

UpperChar(c) ==
    IF \E i \in 1..26 : LowerLetters[i] = c
    THEN UpperLetters[CHOOSE i \in 1..26 : LowerLetters[i] = c]
    ELSE c

\* str.upper()
upper(s) == [i \in 1..Len(s) |-> UpperChar(s[i])]

PLACEHOLDER == <<"@","b","u","s","i","n","e","s","s","_","u","n","i","t">>
SECONDARY_NAME ==
    <<"I","N","T","E","G","R","A","C","I","O","N","_","C","W","_","2","0","_","D","E","V">>

(***************************************************************************)
(* DB_CONFIGS, the registry.  Environment values are symbolic.             *)
(***************************************************************************)
DRIVER == "{ODBC Driver 17 for SQL Server}"

DB_CONFIGS ==
    [k \in {"default", "INTEGRACION_CW_20_DEV"} |->
        IF k = "default"
        THEN [server |-> "$DEV_SERVER", database |-> "$DEV_DATABASE",
              username |-> "$DEV_USERNAME", password |-> "$DEV_PASSWORD",
              driver |-> DRIVER]
        ELSE [server |-> "$DEV_SERVER", database |-> "INTEGRACION_CW_20_DEV",
              username |-> "$DEV_USERNAME", password |-> "$DEV_PASSWORD",
              driver |-> DRIVER]]

\* keys in the registry's iteration order (dict insertion order)
DB_KEYS == <<"default", "INTEGRACION_CW_20_DEV">>

\* the connection string: DRIVER, SERVER, DATABASE, UID, PWD in that order
conn_string(config) ==
    <<config.driver, config.server, config.database,
      config.username, config.password>>

(***************************************************************************)
(* The driver.  A context is the trace of driver calls made so far and the *)
(* exception in flight, if any.                                            *)
(***************************************************************************)
NoExc == ""
NoResult == [glyph |-> "", msg |-> "", exc |-> "", body |-> <<>>]
Ctx0 == [trace |-> <<>>, exc |-> NoExc]

\* One driver call: it is appended to the trace, and raises when it is the
\* call the environment fails.  conn: the connection string of a connect;
\* stmt: the statement an execute runs, text: its SQL when the caller built
\* it, params: its bound parameters, rows: the rows (or the count) it gave.
DriverCall(ctx, fault, call, key, conn, stmt, text, params, rows) ==
    LET bad == (Len(ctx.trace) + 1 = fault)
    IN  [trace |-> Append(ctx.trace,
                     [call |-> call, key |-> key, conn |-> conn, stmt |-> stmt,
                      text |-> text, params |-> params,
                      rows |-> IF bad THEN -1 ELSE rows, raised |-> bad]),
         exc |-> IF bad THEN "pyodbc.Error" ELSE NoExc]

Execute(ctx, fault, stmt, params, rows) ==
    DriverCall(ctx, fault, "execute", "", <<>>, stmt, <<>>, params, rows)
ExecuteText(ctx, fault, text, rows) ==
    DriverCall(ctx, fault, "execute", "", <<>>, "TEXT", text, <<>>, rows)
Commit(ctx, fault) == DriverCall(ctx, fault, "commit", "", <<>>, "", <<>>, <<>>, -1)
Close(ctx, fault) == DriverCall(ctx, fault, "close", "", <<>>, "", <<>>, <<>>, -1)

\* a lookup that checks the key and then reads the default entry
get_db_connection_default_entry(ctx, fault, database_key) ==
    IF database_key \notin DOMAIN DB_CONFIGS
    THEN [trace |-> ctx.trace, exc |-> "ValueError"]
    ELSE DriverCall(ctx, fault, "connect", database_key,
                    conn_string(DB_CONFIGS["default"]), "", <<>>, <<>>, -1)

get_db_connection(ctx, fault, database_key) ==
    IF database_key \notin DOMAIN DB_CONFIGS
    THEN [trace |-> ctx.trace, exc |-> "ValueError"]
    ELSE DriverCall(ctx, fault, "connect", database_key,
                    conn_string(DB_CONFIGS[database_key]), "", <<>>, <<>>, -1)

(***************************************************************************)
(* What a tool body hands back: it returns a text block or lets an         *)
(* exception travel.  A text block is its leading glyph, its message, the  *)
(* exception text it embeds and its lines.                                 *)
(***************************************************************************)
Res(glyph, msg, body) == [glyph |-> glyph, msg |-> msg, exc |-> NoExc, body |-> body]
\* one line (or group of lines) of a text block: what it says, about which
\* database and which table, and the column lines under it
Line(tag, db, name, cols) == [tag |-> tag, db |-> db, name |-> name, cols |-> cols]

Return(ctx, res) == [trace |-> ctx.trace, exc |-> NoExc, result |-> res]
Raise(ctx) == [trace |-> ctx.trace, exc |-> ctx.exc, result |-> NoResult]

\* a handler without its except clause: the exception leaves the operation
try_except_reraise(o, msg) == o

\* except Exception as e: return f"❌ <msg>: {str(e)}"
try_except(o, msg) ==
    IF o.exc # NoExc
    THEN [o EXCEPT !.exc = NoExc,
                   !.result = [glyph |-> "cross", msg |-> msg,
                               exc |-> o.exc, body |-> <<>>]]
    ELSE o

(***************************************************************************)
(* INFORMATION_SCHEMA of each database: (table, column) in ordinal order.  *)
(***************************************************************************)
Catalog(key) ==
    IF key = "default"
    THEN <<[table |-> "t1", column |-> "c1"], [table |-> "t1", column |-> "c2"]>>
    ELSE <<[table |-> "t1", column |-> "c1"], [table |-> "t2", column |-> "c3"]>>

\* SELECT ... FROM INFORMATION_SCHEMA.COLUMNS WHERE TABLE_NAME = ? / IN (...)
SelectColumns(key, names) ==
    LET In(r) == r.table \in names IN SelectSeq(Catalog(key), In)

ColumnsOf(columns, t) ==
    LET Of(r) == r.table = t
        rows == SelectSeq(columns, Of)
    IN  [i \in 1..Len(rows) |-> rows[i].column]

Range(s) == {s[i] : i \in 1..Len(s)}

(***************************************************************************)
(* get_table_structure                                                     *)
(***************************************************************************)
get_table_structure_body(table_name, database_key, fault) ==
    LET c1 == get_db_connection(Ctx0, fault, database_key) IN
    IF c1.exc # NoExc THEN Raise(c1) ELSE
    LET columns == SelectColumns(database_key, {table_name})
        c2 == Execute(c1, fault, "SELECT_COLUMNS", <<table_name>>, Len(columns)) IN
    IF c2.exc # NoExc THEN Raise(c2) ELSE
    IF columns = <<>>
    THEN Return(c2, Res("warning", "No se encontró la tabla",
                        <<Line("not_found", DB_CONFIGS[database_key].database,
                               table_name, <<>>)>>))
    ELSE
    LET c3 == Close(c2, fault) IN
    IF c3.exc # NoExc THEN Raise(c3) ELSE
    Return(c3, Res("clipboard", "Estructura de la tabla",
                   <<Line("found", DB_CONFIGS[database_key].database,
                          table_name, ColumnsOf(columns, table_name))>>))

get_table_structure(table_name, database_key, fault) ==
    try_except(get_table_structure_body(table_name, database_key, fault),
               "Error al obtener estructura")

(***************************************************************************)
(* list_tables                                                             *)
(***************************************************************************)
\* INFORMATION_SCHEMA.TABLES: every table of the catalog is a base table of dbo
SelectTables(key, schema) ==
    IF schema # "dbo" THEN <<>>
    ELSE LET cat == Catalog(key)
             First(i) == \A j \in 1..(i - 1) : cat[j].table # cat[i].table
             idx == {i \in 1..Len(cat) : First(i)}
             Pick(r) == \E i \in idx : cat[i] = r
             rows == SelectSeq(cat, Pick)
         IN  [i \in 1..Len(rows) |-> rows[i].table]

list_tables_body(schema, database_key, fault) ==
    LET c1 == get_db_connection(Ctx0, fault, database_key) IN
    IF c1.exc # NoExc THEN Raise(c1) ELSE
    LET tables == SelectTables(database_key, schema)
        c2 == Execute(c1, fault, "SELECT_TABLES", <<schema>>, Len(tables)) IN
    IF c2.exc # NoExc THEN Raise(c2) ELSE
    LET c3 == Close(c2, fault) IN
    IF c3.exc # NoExc THEN Raise(c3) ELSE
    Return(c3, Res("books", "Tablas disponibles en el esquema",
                   [i \in 1..Len(tables) |->
                       Line("table", DB_CONFIGS[database_key].database,
                            tables[i], <<>>)]))

list_tables(schema, database_key, fault) ==
    try_except(list_tables_body(schema, database_key, fault),
               "Error al listar tablas")

(***************************************************************************)
(* test_query                                                              *)
(***************************************************************************)
\* a check that lets every query text through
has_placeholder_unchecked(query) == TRUE

\* "@business_unit" in query
has_placeholder(query) == Contains(query, PLACEHOLDER)

SAMPLE_ROWS == 5

Min(a, b) == IF a <= b THEN a ELSE b

\* a replacement of the first occurrence only
RECURSIVE replace_first(_, _, _)
replace_first(s, old, new) ==
    IF Len(s) < Len(old) THEN s
    ELSE IF SubSeq(s, 1, Len(old)) = old
         THEN new \o SubSeq(s, Len(old) + 1, Len(s))
         ELSE <<s[1]>> \o replace_first(Tail(s), old, new)

\* str.replace(old, new): every occurrence, left to right, not overlapping
RECURSIVE replace(_, _, _)
replace(s, old, new) ==
    IF Len(s) < Len(old) THEN s
    ELSE IF SubSeq(s, 1, Len(old)) = old
         THEN new \o replace(SubSeq(s, Len(old) + 1, Len(s)), old, new)
         ELSE <<s[1]>> \o replace(Tail(s), old, new)

\* f"'{business_unit}'": the value is one token between two quotes
quoted(business_unit) == <<"'", business_unit, "'">>

\* nrows: the rows the database returns for the substituted text
test_query_body(query, business_unit, database_key, nrows, fault) ==
    IF ~has_placeholder(query)
    THEN Return(Ctx0, Res("warning", "La query debe incluir el parámetro @business_unit", <<>>))
    ELSE
    LET c1 == get_db_connection(Ctx0, fault, database_key) IN
    IF c1.exc # NoExc THEN Raise(c1) ELSE
    LET text == replace(query, PLACEHOLDER, quoted(business_unit))
        c2 == ExecuteText(c1, fault, text, nrows) IN
    IF c2.exc # NoExc THEN Raise(c2) ELSE
    IF nrows = 0
    THEN Return(c2, Res("check", "Query ejecutada correctamente pero no retornó resultados", <<>>))
    ELSE
    LET c3 == Close(c2, fault) IN
    IF c3.exc # NoExc THEN Raise(c3) ELSE
    Return(c3, [glyph |-> "check", msg |-> "Query ejecutada correctamente. Primeras 5 filas",
                exc |-> NoExc,
                body |-> [i \in 1..Min(nrows, SAMPLE_ROWS) |->
                             Line("row", DB_CONFIGS[database_key].database, "", <<>>)],
                total |-> nrows])

test_query(query, business_unit, database_key, nrows, fault) ==
    try_except(test_query_body(query, business_unit, database_key, nrows, fault),
               "Error al probar query")

(***************************************************************************)
(* get_multiple_table_structures                                           *)
(***************************************************************************)
\* a loop without the else branch: every requested name gets the found block
TableLines_no_else(table_names, columns, db, foundTag, missTag) ==
    [i \in 1..Len(table_names) |->
        Line(foundTag, db, table_names[i], ColumnsOf(columns, table_names[i]))]

\* for table_name in table_names: the found block or the not-found line
TableLines(table_names, columns, db, foundTag, missTag) ==
    [i \in 1..Len(table_names) |->
        IF ColumnsOf(columns, table_names[i]) # <<>>
        THEN Line(foundTag, db, table_names[i], ColumnsOf(columns, table_names[i]))
        ELSE Line(missTag, db, table_names[i], <<>>)]

get_multiple_table_structures_body(table_names, database_key, fault) ==
    IF table_names = <<>>
    THEN Return(Ctx0, Res("warning", "No se proporcionaron nombres de tablas", <<>>))
    ELSE
    LET c1 == get_db_connection(Ctx0, fault, database_key) IN
    IF c1.exc # NoExc THEN Raise(c1) ELSE
    LET columns == SelectColumns(database_key, Range(table_names))
        c2 == Execute(c1, fault, "SELECT_COLUMNS_IN", table_names, Len(columns)) IN
    IF c2.exc # NoExc THEN Raise(c2) ELSE
    IF columns = <<>>
    THEN Return(c2, Res("warning", "No se encontraron las tablas",
                        [i \in 1..Len(table_names) |->
                            Line("not_found", DB_CONFIGS[database_key].database,
                                 table_names[i], <<>>)]))
    ELSE
    LET c3 == Close(c2, fault) IN
    IF c3.exc # NoExc THEN Raise(c3) ELSE
    Return(c3, Res("clipboard", "Estructuras de tablas",
                   TableLines(table_names, columns,
                              DB_CONFIGS[database_key].database,
                              "found", "not_found")))

get_multiple_table_structures(table_names, database_key, fault) ==
    try_except(get_multiple_table_structures_body(table_names, database_key, fault),
               "Error al obtener estructuras múltiples")

(***************************************************************************)
(* search_table_in_all_databases                                           *)
(***************************************************************************)
\* one pass of `for db_key, db_config in DB_CONFIGS.items()` with its inner
\* try/except: the context and the lines added to result
search_one_database(ctx, fault, table_name, db_key) ==
    LET db == DB_CONFIGS[db_key].database
        err == <<Line("db_error", db, "", <<>>)>>
        c1 == get_db_connection([trace |-> ctx.trace, exc |-> NoExc], fault, db_key) IN
    IF c1.exc # NoExc THEN [trace |-> c1.trace, lines |-> err] ELSE
    LET columns == SelectColumns(db_key, {table_name})
        c2 == Execute(c1, fault, "SELECT_COLUMNS", <<table_name>>, Len(columns)) IN
    IF c2.exc # NoExc THEN [trace |-> c2.trace, lines |-> err] ELSE
    LET out == IF columns # <<>>
               THEN <<Line("found", db, table_name, ColumnsOf(columns, table_name))>>
               ELSE <<Line("not_found", db, table_name, <<>>)>>
        c3 == Close(c2, fault) IN
    IF c3.exc # NoExc THEN [trace |-> c3.trace, lines |-> out \o err]
    ELSE [trace |-> c3.trace, lines |-> out]

\* a loop that gives up at the first database that fails
RECURSIVE search_loop_stop_on_error(_, _, _, _, _)
search_loop_stop_on_error(i, trace, lines, fault, table_name) ==
    IF i > Len(DB_KEYS) \/ \E n \in 1..Len(trace) : trace[n].raised
    THEN [trace |-> trace, lines |-> lines]
    ELSE LET s == search_one_database([trace |-> trace], fault, table_name, DB_KEYS[i])
         IN  search_loop_stop_on_error(i + 1, s.trace, lines \o s.lines, fault,
                                       table_name)

RECURSIVE search_loop(_, _, _, _, _)
search_loop(i, trace, lines, fault, table_name) ==
    IF i > Len(DB_KEYS) THEN [trace |-> trace, lines |-> lines]
    ELSE LET s == search_one_database([trace |-> trace], fault, table_name, DB_KEYS[i])
         IN  search_loop(i + 1, s.trace, lines \o s.lines, fault, table_name)

search_table_in_all_databases_body(table_name, fault) ==
    LET r == search_loop(1, <<>>, <<>>, fault, table_name)
    IN  Return(r, Res("magnifier", "Buscando tabla en todas las bases de datos", r.lines))

search_table_in_all_databases(table_name, fault) ==
    try_except(search_table_in_all_databases_body(table_name, fault), "Error general")

(***************************************************************************)
(* get_table_structures_across_databases                                   *)
(***************************************************************************)
across_one_database(ctx, fault, table_names, db_key) ==
    LET db == DB_CONFIGS[db_key].database
        err == <<Line("db_error", db, "", <<>>)>>
        c1 == get_db_connection([trace |-> ctx.trace, exc |-> NoExc], fault, db_key) IN
    IF c1.exc # NoExc THEN [trace |-> c1.trace, lines |-> err] ELSE
    LET columns == SelectColumns(db_key, Range(table_names))
        c2 == Execute(c1, fault, "SELECT_COLUMNS_IN", table_names, Len(columns)) IN
    IF c2.exc # NoExc THEN [trace |-> c2.trace, lines |-> err] ELSE
    LET out == <<Line("db_header", db, "", <<>>)>> \o
               (IF columns # <<>>
                THEN TableLines(table_names, columns, db, "found", "not_found")
                ELSE <<Line("none_found", db, "", <<>>)>>)
        c3 == Close(c2, fault) IN
    IF c3.exc # NoExc THEN [trace |-> c3.trace, lines |-> out \o err]
    ELSE [trace |-> c3.trace, lines |-> out]

RECURSIVE across_loop(_, _, _, _, _)
across_loop(i, trace, lines, fault, table_names) ==
    IF i > Len(DB_KEYS) THEN [trace |-> trace, lines |-> lines]
    ELSE LET s == across_one_database([trace |-> trace], fault, table_names, DB_KEYS[i])
         IN  across_loop(i + 1, s.trace, lines \o s.lines, fault, table_names)

get_table_structures_across_databases_body(table_names, fault) ==
    IF table_names = <<>>
    THEN Return(Ctx0, Res("warning", "No se proporcionaron nombres de tablas", <<>>))
    ELSE LET r == across_loop(1, <<>>, <<>>, fault, table_names)
         IN  Return(r, Res("magnifier", "Buscando estructuras de tablas en todas las bases de datos",
                           r.lines))

get_table_structures_across_databases(table_names, fault) ==
    try_except(get_table_structures_across_databases_body(table_names, fault),
               "Error general")

(***************************************************************************)
(* bulk_search_tables_in_databases                                         *)
(***************************************************************************)
SHOWN_COLUMNS == 5

Put(f, k, v) == [x \in DOMAIN f \cup {k} |-> IF x = k THEN v ELSE f[x]]
NoEntries == [x \in {} |-> <<>>]

\* distinct table names among the rows: len(found_tables)
FoundCount(columns) == Cardinality({columns[i].table : i \in 1..Len(columns)})

\* one pass of `for db_key in database_keys` with its inner try/except
bulk_search_one_database(st, fault, table_names, db_key) ==
    LET failed == [error |-> TRUE, columns |-> <<>>]
        c1 == get_db_connection([trace |-> st.trace, exc |-> NoExc], fault, db_key) IN
    IF c1.exc # NoExc
    THEN [trace |-> c1.trace, all_results |-> Put(st.all_results, db_key, failed),
          total_found |-> st.total_found] ELSE
    LET columns == SelectColumns(db_key, Range(table_names))
        c2 == Execute(c1, fault, "SELECT_COLUMNS_IN", table_names, Len(columns)) IN
    IF c2.exc # NoExc
    THEN [trace |-> c2.trace, all_results |-> Put(st.all_results, db_key, failed),
          total_found |-> st.total_found] ELSE
    LET total == st.total_found + FoundCount(columns)
        c3 == Close(c2, fault) IN
    IF c3.exc # NoExc
    THEN [trace |-> c3.trace, all_results |-> Put(st.all_results, db_key, failed),
          total_found |-> total]
    ELSE [trace |-> c3.trace,
          all_results |-> Put(st.all_results, db_key,
                              [error |-> FALSE, columns |-> columns]),
          total_found |-> total]

RECURSIVE bulk_search_loop(_, _, _, _, _)
bulk_search_loop(i, st, fault, table_names, database_keys) ==
    IF i > Len(database_keys) THEN st
    ELSE bulk_search_loop(i + 1,
             bulk_search_one_database(st, fault, table_names, database_keys[i]),
             fault, table_names, database_keys)

FirstN(s, n) == SubSeq(s, 1, Min(Len(s), n))

\* the block of one database in the text
bulk_search_db_lines(table_names, db_key, db_result) ==
    LET db == DB_CONFIGS[db_key].database
        head == <<Line("db_header", db, "", <<>>)>> IN
    IF db_result.error THEN head \o <<Line("db_error", db, "", <<>>)>>
    ELSE IF FoundCount(db_result.columns) = 0
    THEN head \o <<Line("none_found", db, "", <<>>)>>
    ELSE head \o <<Line("found_count", db, "", <<>>)>> \o
         [i \in 1..Len(table_names) |->
            IF ColumnsOf(db_result.columns, table_names[i]) # <<>>
            THEN Line("found", db, table_names[i],
                      FirstN(ColumnsOf(db_result.columns, table_names[i]),
                             SHOWN_COLUMNS))
            ELSE Line("not_found", db, table_names[i], <<>>)]

RECURSIVE bulk_search_report(_, _, _, _)
bulk_search_report(i, table_names, database_keys, all_results) ==
    IF i > Len(database_keys) THEN <<>>
    ELSE bulk_search_db_lines(table_names, database_keys[i],
                              all_results[database_keys[i]])
         \o bulk_search_report(i + 1, table_names, database_keys, all_results)

\* "Resumen por tabla"
bulk_search_summary(table_names, database_keys, all_results) ==
    [i \in 1..Len(table_names) |->
        IF \E j \in 1..Len(database_keys) :
              ColumnsOf(all_results[database_keys[j]].columns, table_names[i]) # <<>>
        THEN Line("summary_found", "", table_names[i], <<>>)
        ELSE Line("summary_not_found", "", table_names[i], <<>>)]

\* database_keys: None, or Some(list)
bulk_search_tables_in_databases_body(table_names, database_keys_arg, fault) ==
    IF table_names = <<>>
    THEN Return(Ctx0, Res("warning", "No se proporcionaron nombres de tablas para buscar", <<>>))
    ELSE
    LET database_keys == IF database_keys_arg = None THEN DB_KEYS
                         ELSE database_keys_arg[1] IN
    IF \E i \in 1..Len(database_keys) : database_keys[i] \notin DOMAIN DB_CONFIGS
    THEN Return(Ctx0, Res("cross", "Bases de datos no válidas", <<>>))
    ELSE
    LET st == bulk_search_loop(1, [trace |-> <<>>, all_results |-> NoEntries,
                                   total_found |-> 0],
                               fault, table_names, database_keys)
    IN  Return(st, [glyph |-> "magnifier", msg |-> "Búsqueda masiva de tablas completada",
                    exc |-> NoExc,
                    body |-> bulk_search_report(1, table_names, database_keys,
                                                st.all_results)
                             \o bulk_search_summary(table_names, database_keys,
                                                    st.all_results),
                    total |-> st.total_found])

bulk_search_tables_in_databases(table_names, database_keys_arg, fault) ==
    try_except(bulk_search_tables_in_databases_body(table_names, database_keys_arg, fault),
               "Error en búsqueda masiva")

\* the query texts the callers pass
QueryText(q) ==
    CASE q = "Q_ok" ->
           <<"x","=","@","b","u","s","i","n","e","s","s","_","u","n","i","t">>
      [] q = "Q_none" -> <<"s","e","l","e","c","t"," ","1">>
      [] q = "Q_case" ->
           <<"x","=","@","B","u","s","i","n","e","s","s","_","u","n","i","t">>
      [] q = "Q_two" ->
           <<"@","b","u","s","i","n","e","s","s","_","u","n","i","t","=",
             "@","b","u","s","i","n","e","s","s","_","u","n","i","t">>
      [] q = "Q_sec" ->
           <<"i","n","t","e","g","r","a","c","i","o","n","_","c","w","_","2","0","_",
             "d","e","v",".","t","@","b","u","s","i","n","e","s","s","_","u","n","i","t">>
(***************************************************************************)
(* create_report                                                           *)
(***************************************************************************)
\* dict.get(k, default) / dict.get(k)
Get(d, k, default) == IF k \in DOMAIN d THEN d[k] ELSE default

\* a dict in insertion order: a sequence of <<key, value>>
HasKey(d, k) == \E i \in 1..Len(d) : d[i][1] = k

\* d[k] = v
SetItem(d, k, v) ==
    IF HasKey(d, k)
    THEN [i \in 1..Len(d) |-> IF d[i][1] = k THEN <<k, v>> ELSE d[i]]
    ELSE Append(d, <<k, v>>)

\* dict.update(other)
RECURSIVE update(_, _)
update(d, other) ==
    IF other = <<>> THEN d
    ELSE update(SetItem(d, other[1][1], other[1][2]), Tail(other))

\* json.dumps of a flat dict of strings: its pairs, in order
json_dumps(d) == [tag |-> "json", pairs |-> d]

\* params_config = {"business_unit": "NVARCHAR(20)"}; update(additional_params)
\* additional_params: None, or Some(dict)
params_config(additional_params) ==
    LET base == << <<"business_unit", "NVARCHAR(20)">> >> IN
    IF additional_params # None /\ additional_params[1] # <<>>
    THEN update(base, additional_params[1])
    ELSE base

\* an attribution that looks for the name in the text as written
query_database_key_case_sensitive(query, database_key) ==
    IF database_key = None
    THEN IF Contains(query, SECONDARY_NAME)
         THEN "INTEGRACION_CW_20_DEV"
         ELSE "default"
    ELSE database_key[1]

\* the database the query text is attributed to; database_key: None or Some(key)
query_database_key(query, database_key) ==
    IF database_key = None
    THEN IF Contains(upper(query), SECONDARY_NAME)
         THEN "INTEGRACION_CW_20_DEV"
         ELSE "default"
    ELSE database_key[1]

\* the bound parameters of EXEC sp_ecosystem_create_columns_config
sp_params(report_prefix, description_en, description_es, query, params_json, is_detail, has_detail, action_column, detail_prefix, detail_mode, open_another_tab, type_resource, columns_to_render, default_for_all) ==
    <<report_prefix, description_en, description_es, query, params_json,
      is_detail, has_detail, action_column, detail_prefix, detail_mode,
      open_another_tab, type_resource, columns_to_render, default_for_all>>

\* a mutation body also hands back what its connection has executed and not
\* yet committed
ReturnW(ctx, res, pending) ==
    [trace |-> ctx.trace, exc |-> NoExc, result |-> res, pending |-> pending]
RaiseW(ctx, pending) ==
    [trace |-> ctx.trace, exc |-> ctx.exc, result |-> NoResult, pending |-> pending]

\* a body that runs the procedure on the database the query is attributed to
create_report_body_on_query_database(report_prefix, query, additional_params, database_key, fault) ==
    IF ~has_placeholder(QueryText(query))
    THEN ReturnW(Ctx0, Res("warning", "La query debe incluir el parámetro @business_unit", <<>>), {})
    ELSE
    LET qkey == query_database_key(QueryText(query), database_key)
        params_json == json_dumps(params_config(additional_params))
        c1 == get_db_connection(Ctx0, fault, qkey) IN
    IF c1.exc # NoExc THEN RaiseW(c1, {}) ELSE
    LET c2 == Execute(c1, fault, "EXEC_SP",
                      sp_params(report_prefix, "en", "es", query, params_json,
                                0, None, None, None, None, None, "table", None, 0),
                      -1) IN
    IF c2.exc # NoExc THEN RaiseW(c2, {}) ELSE
    LET c3 == Commit(c2, fault) IN
    IF c3.exc # NoExc THEN RaiseW(c3, {report_prefix}) ELSE
    LET c4 == Close(c3, fault) IN
    IF c4.exc # NoExc THEN RaiseW(c4, {report_prefix}) ELSE
    ReturnW(c4, [glyph |-> "check", msg |-> "Reporte creado exitosamente",
                 exc |-> NoExc, body |-> <<>>,
                 params |-> params_json,
                 query_database |-> DB_CONFIGS[qkey].database,
                 sp_database |-> DB_CONFIGS[qkey].database],
            {report_prefix})

\* query: the name of the text (QueryText)
create_report_body(report_prefix, query, additional_params, database_key, fault) ==
    IF ~has_placeholder(QueryText(query))
    THEN ReturnW(Ctx0, Res("warning", "La query debe incluir el parámetro @business_unit", <<>>), {})
    ELSE
    LET qkey == query_database_key(QueryText(query), database_key)
        params_json == json_dumps(params_config(additional_params))
        c1 == get_db_connection(Ctx0, fault, "default") IN
    IF c1.exc # NoExc THEN RaiseW(c1, {}) ELSE
    LET c2 == Execute(c1, fault, "EXEC_SP",
                      sp_params(report_prefix, "en", "es", query, params_json,
                                0, None, None, None, None, None, "table", None, 0),
                      -1) IN
    IF c2.exc # NoExc THEN RaiseW(c2, {}) ELSE
    LET c3 == Commit(c2, fault) IN
    IF c3.exc # NoExc THEN RaiseW(c3, {report_prefix}) ELSE
    LET c4 == Close(c3, fault) IN
    IF c4.exc # NoExc THEN RaiseW(c4, {report_prefix}) ELSE
    IF qkey \notin DOMAIN DB_CONFIGS
    THEN RaiseW([trace |-> c4.trace, exc |-> "KeyError"], {report_prefix})
    ELSE ReturnW(c4, [glyph |-> "check", msg |-> "Reporte creado exitosamente",
                      exc |-> NoExc, body |-> <<>>,
                      params |-> params_json,
                      query_database |-> DB_CONFIGS[qkey].database,
                      sp_database |-> DB_CONFIGS["default"].database],
                 {report_prefix})

create_report(report_prefix, query, additional_params, database_key, fault) ==
    try_except(create_report_body(report_prefix, query, additional_params,
                                  database_key, fault),
               "Error al crear el reporte")

(***************************************************************************)
(* bulk_create_reports                                                     *)
(***************************************************************************)
REQUIRED_REPORT_FIELDS ==
    <<"report_prefix", "report_description_en", "report_description_es", "query">>

MissingFields(required, d) ==
    LET Miss(f) == f \notin DOMAIN d IN SelectSeq(required, Miss)

\* one pass of `for i, report_data in enumerate(reports_data, 1)`
bulk_create_item(st, fault, i, report_data) ==
    LET Failed(trace, pending, error) ==
            [st EXCEPT !.trace = trace, !.pending = pending,
                       !.failed = Append(st.failed,
                           [index |-> i,
                            report_prefix |-> Get(report_data, "report_prefix", "N/A"),
                            error |-> error])] IN
    IF MissingFields(REQUIRED_REPORT_FIELDS, report_data) # <<>>
    THEN Failed(st.trace, st.pending, "Campos faltantes")
    ELSE IF ~has_placeholder(QueryText(report_data.query))
    THEN Failed(st.trace, st.pending, "La query debe incluir el parámetro @business_unit")
    ELSE
    LET qkey == query_database_key(QueryText(report_data.query),
                                   Get(report_data, "database_key", None))
        params_json == json_dumps(params_config(
                           Get(report_data, "additional_params", None)))
        c == Execute([trace |-> st.trace, exc |-> NoExc], fault, "EXEC_SP",
                     sp_params(report_data.report_prefix,
                               report_data.report_description_en,
                               report_data.report_description_es,
                               report_data.query, params_json,
                               0, None, None, None, None, None, "table", None, 0),
                     -1) IN
    IF c.exc # NoExc THEN Failed(c.trace, st.pending, c.exc)
    ELSE IF qkey \notin DOMAIN DB_CONFIGS
    THEN Failed(c.trace, st.pending \cup {report_data.report_prefix}, "KeyError")
    ELSE [st EXCEPT !.trace = c.trace,
                    !.pending = st.pending \cup {report_data.report_prefix},
                    !.successful = Append(st.successful,
                        [index |-> i,
                         report_prefix |-> report_data.report_prefix,
                         query_database |-> DB_CONFIGS[qkey].database,
                         sp_database |-> DB_CONFIGS["default"].database]),
                    !.total_created = st.total_created + 1]

\* a loop that stops at the first failed item
RECURSIVE bulk_create_loop_abort(_, _, _, _)
bulk_create_loop_abort(i, st, fault, reports_data) ==
    IF i > Len(reports_data) \/ st.failed # <<>> THEN st
    ELSE bulk_create_loop_abort(i + 1,
                                bulk_create_item(st, fault, i, reports_data[i]),
                                fault, reports_data)

\* a loop that commits after every item
RECURSIVE bulk_create_loop_commit_each(_, _, _, _)
bulk_create_loop_commit_each(i, st, fault, reports_data) ==
    IF i > Len(reports_data) THEN st
    ELSE LET done == bulk_create_item(st, fault, i, reports_data[i])
             c == Commit([trace |-> done.trace, exc |-> NoExc], fault)
         IN  bulk_create_loop_commit_each(i + 1, [done EXCEPT !.trace = c.trace],
                                          fault, reports_data)

RECURSIVE bulk_create_loop(_, _, _, _)
bulk_create_loop(i, st, fault, reports_data) ==
    IF i > Len(reports_data) THEN st
    ELSE bulk_create_loop(i + 1, bulk_create_item(st, fault, i, reports_data[i]),
                          fault, reports_data)

bulk_create_reports_body(reports_data, fault) ==
    IF reports_data = <<>>
    THEN ReturnW(Ctx0, Res("warning", "No se proporcionaron datos de reportes para crear", <<>>), {})
    ELSE
    LET c1 == get_db_connection(Ctx0, fault, "default") IN
    IF c1.exc # NoExc THEN RaiseW(c1, {}) ELSE
    LET st == bulk_create_loop(1, [trace |-> c1.trace, pending |-> {},
                                   successful |-> <<>>, failed |-> <<>>,
                                   total_created |-> 0],
                               fault, reports_data)
        c2 == Commit([trace |-> st.trace, exc |-> NoExc], fault) IN
    IF c2.exc # NoExc THEN RaiseW(c2, st.pending) ELSE
    LET c3 == Close(c2, fault) IN
    IF c3.exc # NoExc THEN RaiseW(c3, st.pending) ELSE
    ReturnW(c3, [glyph |-> "chart", msg |-> "Creación masiva de reportes completada",
                 exc |-> NoExc, body |-> <<>>,
                 total_created |-> st.total_created,
                 successful |-> st.successful,
                 failed |-> st.failed],
            st.pending)

bulk_create_reports(reports_data, fault) ==
    try_except(bulk_create_reports_body(reports_data, fault),
               "Error en creación masiva")

(***************************************************************************)
(* Tables default_roles and assigned_reports.                              *)
(***************************************************************************)
\* default_roles(code, description, application_type, business_unit, order_)
DefaultRoles ==
    << [code |-> "R1", description |-> <<"a","d","m","i","n">>,
        application_type |-> "sales_force", business_unit |-> "b1", order_ |-> 1],
       [code |-> "R2", description |-> <<"a","d","m","i","n","2">>,
        application_type |-> "merchandising", business_unit |-> "b1", order_ |-> 2],
       [code |-> "R0", description |-> <<"s","y","s","a","d","m","i","n">>,
        application_type |-> "sys_admin", business_unit |-> "b1", order_ |-> 3],
       [code |-> "R0", description |-> <<"s","y","s","a","d","m","i","n">>,
        application_type |-> "sys_admin", business_unit |-> "b2", order_ |-> 1] >>

Reverse(s) == [i \in 1..Len(s) |-> s[Len(s) + 1 - i]]

\* a role query that forgets the sys_admin exclusion
role_filter_all_types(r, business_unit, role_description) ==
    /\ r.business_unit = business_unit
    /\ Contains(r.description, role_description)

\* the WHERE clause of the role query
role_filter(r, business_unit, role_description) ==
    /\ r.business_unit = business_unit
    /\ Contains(r.description, role_description)
    /\ r.application_type # "sys_admin"

\* SELECT code, description, application_type FROM default_roles WHERE
\* business_unit = ? AND description LIKE %?% AND application_type != 'sys_admin'
\* The query has no ORDER BY: rev is the order the engine returns the rows in.
SelectRoles(business_unit, role_description, rev) ==
    LET Match(r) == role_filter(r, business_unit, role_description)
        rows == SelectSeq(DefaultRoles, Match)
    IN  IF rev THEN Reverse(rows) ELSE rows

\* SELECT ... FROM default_roles WHERE business_unit = ? AND
\* application_type != 'sys_admin' ORDER BY order_, description
\* (the table is kept in that order)
SelectAvailableRoles(business_unit) ==
    LET Match(r) == role_filter(r, business_unit, <<>>)
    IN  SelectSeq(DefaultRoles, Match)

RECURSIVE SumOver(_, _)
SumOver(S, f) ==
    IF S = {} THEN 0
    ELSE LET x == CHOOSE y \in S : TRUE IN f[x] + SumOver(S \ {x}, f)

\* a WHERE clause that forgets the role
SameKey_any_role(r, business_unit, report_prefix, roles) ==
    /\ r.business_unit = business_unit
    /\ r.report_prefix = report_prefix

SameKey(r, business_unit, report_prefix, roles) ==
    /\ r.business_unit = business_unit
    /\ r.report_prefix = report_prefix
    /\ r.role \in roles

\* an existence check whose role parameter matches no row
CountAssigned_blind(table, business_unit, report_prefix, roles) ==
    SumOver({r \in BagToSet(table) : SameKey(r, business_unit, report_prefix, {})},
            table)

\* SELECT COUNT(*) FROM assigned_reports WHERE business_unit = ? AND
\* report_prefix = ? AND role = ? / role IN (...)
CountAssigned(table, business_unit, report_prefix, roles) ==
    SumOver({r \in BagToSet(table) : SameKey(r, business_unit, report_prefix, roles)},
            table)

\* INSERT INTO assigned_reports (...) VALUES (...)
InsertAssigned(table, row) == table (+) SetToBag({row})

AssignedRow(role, report_prefix, business_unit, f) ==
    [role |-> role, report_prefix |-> report_prefix, business_unit |-> business_unit,
     application_type |-> f.application_type, order |-> f.order,
     custom_tag |-> f.custom_tag, sales_office |-> f.sales_office,
     center_logistical |-> f.center_logistical]

FIELD_NAMES ==
    <<"application_type", "order", "custom_tag", "sales_office", "center_logistical">>

\* every column taken as supplied, None or not
update_fields_unfiltered(f) == FIELD_NAMES

\* update_fields: the columns whose argument is not None, in the code's order
update_fields(f) ==
    LET Given(n) == f[n] # None IN SelectSeq(FIELD_NAMES, Given)

\* SET col = ? for the fields given
SetFields(r, f) ==
    [c \in DOMAIN r |->
        IF c \in Range(update_fields(f)) THEN f[c] ELSE r[c]]

\* UPDATE assigned_reports SET ... WHERE business_unit = ? AND
\* report_prefix = ? AND role = ? / role IN (...)
UpdateAssigned(table, business_unit, report_prefix, roles, f) ==
    LET New(r) == IF SameKey(r, business_unit, report_prefix, roles)
                  THEN SetFields(r, f) ELSE r
        old == BagToSet(table)
        T == {New(r) : r \in old}
    IN  [x \in T |-> SumOver({r \in old : New(r) = x}, table)]

(***************************************************************************)
(* assign_report_to_role                                                   *)
(***************************************************************************)
\* table: the committed rows the connection reads; f: the five optional
\* arguments; rev: the order of the role query's rows
assign_report_to_role_body(table, report_prefix, business_unit, role_description, f, rev, fault) ==
    LET c1 == get_db_connection(Ctx0, fault, "default") IN
    IF c1.exc # NoExc THEN RaiseW(c1, table) ELSE
    LET roles == SelectRoles(business_unit, role_description, rev)
        c2 == Execute(c1, fault, "SELECT_ROLES",
                      <<business_unit, role_description>>, Len(roles)) IN
    IF c2.exc # NoExc THEN RaiseW(c2, table) ELSE
    IF roles = <<>>
    THEN ReturnW(c2, Res("cross", "No se encontró ningún rol", <<>>), table)
    ELSE
    LET role_code == roles[1].code
        multiple == Len(roles) > 1
        exists == CountAssigned(table, business_unit, report_prefix, {role_code})
        c3 == Execute(c2, fault, "SELECT_COUNT",
                      <<business_unit, report_prefix, role_code>>, exists) IN
    IF c3.exc # NoExc THEN RaiseW(c3, table) ELSE
    IF exists > 0
    THEN ReturnW(c3, [glyph |-> "warning", msg |-> "ya está asignado al rol",
                      exc |-> NoExc, body |-> <<>>, role_code |-> role_code],
                 table)
    ELSE
    LET row == AssignedRow(role_code, report_prefix, business_unit, f)
        c4 == Execute(c3, fault, "INSERT", <<row>>, -1) IN
    IF c4.exc # NoExc THEN RaiseW(c4, table) ELSE
    LET inserted == InsertAssigned(table, row)
        c5 == Commit(c4, fault) IN
    IF c5.exc # NoExc THEN RaiseW(c5, inserted) ELSE
    LET c6 == Close(c5, fault) IN
    IF c6.exc # NoExc THEN RaiseW(c6, inserted) ELSE
    \* f"{warning_msg}✅ Reporte asignado exitosamente!..."
    ReturnW(c6, [glyph |-> IF multiple THEN "warning" ELSE "check",
                 msg |-> IF multiple
                         THEN "Se encontraron múltiples roles. Reporte asignado exitosamente"
                         ELSE "Reporte asignado exitosamente",
                 exc |-> NoExc, body |-> <<>>, role_code |-> role_code],
            inserted)

assign_report_to_role(table, report_prefix, business_unit, role_description, f, rev, fault) ==
    try_except(assign_report_to_role_body(table, report_prefix, business_unit,
                                          role_description, f, rev, fault),
               "Error al asignar reporte")

(***************************************************************************)
(* update_report_assignment                                                *)
(***************************************************************************)
\* the rows of the table a WHERE on the key columns selects, as a bag
Matching(table, business_unit, report_prefix, roles) ==
    LET S == {r \in BagToSet(table) : SameKey(r, business_unit, report_prefix, roles)}
    IN  [r \in S |-> table[r]]

\* changes: the supplied fields whose value differs from the current row's
changes(current, f) ==
    LET Changed(n) == f[n] # None /\ f[n] # current[n]
    IN  SelectSeq(FIELD_NAMES, Changed)

update_report_assignment_body(table, report_prefix, business_unit, role_code, f, fault) ==
    LET c1 == get_db_connection(Ctx0, fault, "default") IN
    IF c1.exc # NoExc THEN RaiseW(c1, table) ELSE
    LET exists == CountAssigned(table, business_unit, report_prefix, {role_code})
        c2 == Execute(c1, fault, "SELECT_COUNT",
                      <<business_unit, report_prefix, role_code>>, exists) IN
    IF c2.exc # NoExc THEN RaiseW(c2, table) ELSE
    IF exists = 0
    THEN ReturnW(c2, Res("cross", "No existe una asignación", <<>>), table)
    ELSE
    LET c3 == Execute(c2, fault, "SELECT_CURRENT",
                      <<business_unit, report_prefix, role_code>>, 1) IN
    IF c3.exc # NoExc THEN RaiseW(c3, table) ELSE
    \* cursor.fetchone(): one of the matching rows
    LET current == CHOOSE r \in BagToSet(table) :
                       SameKey(r, business_unit, report_prefix, {role_code}) IN
    IF update_fields(f) = <<>>
    THEN ReturnW(c3, Res("warning", "No se proporcionaron campos para actualizar", <<>>),
                 table)
    ELSE
    LET c4 == Execute(c3, fault, "UPDATE",
                      <<update_fields(f), business_unit, report_prefix, role_code>>,
                      exists) IN
    IF c4.exc # NoExc THEN RaiseW(c4, table) ELSE
    LET updated == UpdateAssigned(table, business_unit, report_prefix, {role_code}, f)
        c5 == Commit(c4, fault) IN
    IF c5.exc # NoExc THEN RaiseW(c5, updated) ELSE
    LET c6 == Close(c5, fault) IN
    IF c6.exc # NoExc THEN RaiseW(c6, updated) ELSE
    ReturnW(c6, [glyph |-> "check", msg |-> "Asignación actualizada exitosamente",
                 exc |-> NoExc, body |-> changes(current, f),
                 role_code |-> role_code],
            updated)

update_report_assignment(table, report_prefix, business_unit, role_code, f, fault) ==
    try_except(update_report_assignment_body(table, report_prefix, business_unit,
                                             role_code, f, fault),
               "Error al actualizar asignación")

(***************************************************************************)
(* bulk_update_report_assignments                                          *)
(***************************************************************************)
bulk_update_report_assignments_body(table, report_prefix, business_unit, role_codes, f, fault) ==
    IF role_codes = <<>>
    THEN ReturnW(Ctx0, Res("warning", "No se proporcionaron códigos de roles para actualizar",
                           <<>>), table)
    ELSE
    LET c1 == get_db_connection(Ctx0, fault, "default") IN
    IF c1.exc # NoExc THEN RaiseW(c1, table) ELSE
    LET exists_count == CountAssigned(table, business_unit, report_prefix,
                                      Range(role_codes))
        c2 == Execute(c1, fault, "SELECT_COUNT",
                      <<business_unit, report_prefix, role_codes>>, exists_count) IN
    IF c2.exc # NoExc THEN RaiseW(c2, table) ELSE
    IF exists_count = 0
    THEN ReturnW(c2, Res("cross", "No existen asignaciones", <<>>), table)
    ELSE
    LET roles_info == {r.role : r \in DOMAIN Matching(table, business_unit,
                                                      report_prefix, Range(role_codes))}
        c3 == Execute(c2, fault, "SELECT_ROLES_INFO",
                      <<business_unit, report_prefix, role_codes>>, exists_count) IN
    IF c3.exc # NoExc THEN RaiseW(c3, table) ELSE
    IF update_fields(f) = <<>>
    THEN ReturnW(c3, Res("warning", "No se proporcionaron campos para actualizar", <<>>),
                 table)
    ELSE
    LET c4 == Execute(c3, fault, "UPDATE",
                      <<update_fields(f), business_unit, report_prefix, role_codes>>,
                      exists_count) IN
    IF c4.exc # NoExc THEN RaiseW(c4, table) ELSE
    LET updated == UpdateAssigned(table, business_unit, report_prefix,
                                  Range(role_codes), f)
        c5 == Commit(c4, fault) IN
    IF c5.exc # NoExc THEN RaiseW(c5, updated) ELSE
    LET c6 == Close(c5, fault) IN
    IF c6.exc # NoExc THEN RaiseW(c6, updated) ELSE
    ReturnW(c6, [glyph |-> "check", msg |-> "Actualización masiva completada exitosamente",
                 exc |-> NoExc, body |-> update_fields(f),
                 affected_rows |-> exists_count, roles_info |-> roles_info],
            updated)

bulk_update_report_assignments(table, report_prefix, business_unit, role_codes, f, fault) ==
    try_except(bulk_update_report_assignments_body(table, report_prefix, business_unit,
                                                   role_codes, f, fault),
               "Error en actualización masiva")

(***************************************************************************)
(* list_available_roles                                                    *)
(***************************************************************************)
list_available_roles_body(business_unit, fault) ==
    LET c1 == get_db_connection(Ctx0, fault, "default") IN
    IF c1.exc # NoExc THEN Raise(c1) ELSE
    LET roles == SelectAvailableRoles(business_unit)
        c2 == Execute(c1, fault, "SELECT_AVAILABLE_ROLES", <<business_unit>>,
                      Len(roles)) IN
    IF c2.exc # NoExc THEN Raise(c2) ELSE
    IF roles = <<>>
    THEN Return(c2, Res("cross", "No se encontraron roles", <<>>))
    ELSE
    LET c3 == Close(c2, fault) IN
    IF c3.exc # NoExc THEN Raise(c3) ELSE
    Return(c3, Res("people", "Roles disponibles", roles))

list_available_roles(business_unit, fault) ==
    try_except(list_available_roles_body(business_unit, fault),
               "Error al listar roles")

(***************************************************************************)
(* get_report_assignments, bulk_get_report_assignments                     *)
(***************************************************************************)
\* `if business_unit:` - None and the empty string are false
Truthy(x) == x # None /\ x # Some("")

\* SELECT ... FROM assigned_reports ar LEFT JOIN default_roles dr ...
\* WHERE ar.report_prefix = ? / IN (...) [AND ar.business_unit = ?]
SelectAssignments(table, prefixes, business_unit) ==
    LET S == {r \in BagToSet(table) :
                 /\ r.report_prefix \in prefixes
                 /\ Truthy(business_unit) => r.business_unit = business_unit[1]}
    IN  [r \in S |-> table[r]]

get_report_assignments_body(table, report_prefix, business_unit, fault) ==
    LET c1 == get_db_connection(Ctx0, fault, "default") IN
    IF c1.exc # NoExc THEN Raise(c1) ELSE
    LET assignments == SelectAssignments(table, {report_prefix}, business_unit)
        c2 == Execute(c1, fault, "SELECT_ASSIGNMENTS",
                      <<report_prefix, business_unit>>, BagCardinality(assignments)) IN
    IF c2.exc # NoExc THEN Raise(c2) ELSE
    IF assignments = EmptyBag
    THEN Return(c2, Res("cross", "No se encontraron asignaciones", <<>>))
    ELSE
    LET c3 == Close(c2, fault) IN
    IF c3.exc # NoExc THEN Raise(c3) ELSE
    Return(c3, Res("clipboard", "Asignaciones del reporte", assignments))

get_report_assignments(table, report_prefix, business_unit, fault) ==
    try_except(get_report_assignments_body(table, report_prefix, business_unit, fault),
               "Error al obtener asignaciones")

bulk_get_report_assignments_body(table, report_prefixes, business_unit, fault) ==
    IF report_prefixes = <<>>
    THEN Return(Ctx0, Res("warning", "No se proporcionaron prefijos de reportes", <<>>))
    ELSE
    LET c1 == get_db_connection(Ctx0, fault, "default") IN
    IF c1.exc # NoExc THEN Raise(c1) ELSE
    LET assignments == SelectAssignments(table, Range(report_prefixes), business_unit)
        c2 == Execute(c1, fault, "SELECT_ASSIGNMENTS",
                      <<report_prefixes, business_unit>>, BagCardinality(assignments)) IN
    IF c2.exc # NoExc THEN Raise(c2) ELSE
    IF assignments = EmptyBag
    THEN Return(c2, Res("cross", "No se encontraron asignaciones para los reportes", <<>>))
    ELSE
    \* for report_prefix in report_prefixes: its group, or "Sin asignaciones"
    LET reports_data(p) == SelectAssignments(table, {p}, business_unit)
        body == [i \in 1..Len(report_prefixes) |->
                    LET g == reports_data(report_prefixes[i]) IN
                    IF g # EmptyBag
                    THEN [tag |-> "report", name |-> report_prefixes[i],
                          total |-> BagCardinality(g)]
                    ELSE [tag |-> "no_assignments", name |-> report_prefixes[i],
                          total |-> 0]]
        c3 == Close(c2, fault) IN
    IF c3.exc # NoExc THEN Raise(c3) ELSE
    Return(c3, [glyph |-> "clipboard", msg |-> "Asignaciones de reportes solicitados",
                exc |-> NoExc, body |-> body,
                total_assignments |-> SumOver(DOMAIN body, [i \in DOMAIN body |-> body[i].total])])

bulk_get_report_assignments(table, report_prefixes, business_unit, fault) ==
    try_except(bulk_get_report_assignments_body(table, report_prefixes, business_unit,
                                                fault),
               "Error al obtener asignaciones masivas")

(***************************************************************************)
(* bulk_assign_reports_to_roles                                            *)
(***************************************************************************)
REQUIRED_ASSIGNMENT_FIELDS ==
    <<"report_prefix", "business_unit", "role_description", "application_type">>

valid_app_types == {"sales_force", "merchandising"}

\* assignment_data.get(k)
Opt(d, k) == IF k \in DOMAIN d THEN Some(d[k]) ELSE None

\* one pass of `for i, assignment_data in enumerate(assignments_data, 1)`;
\* revs: the passes whose role query returns its rows in the other order
bulk_assign_item(st, fault, i, assignment_data, revs) ==
    LET Failed(trace, error) ==
            [st EXCEPT !.trace = trace,
                       !.failed = Append(st.failed,
                           [index |-> i,
                            report_prefix |-> Get(assignment_data, "report_prefix", "N/A"),
                            business_unit |-> Get(assignment_data, "business_unit", "N/A"),
                            error |-> error])] IN
    IF MissingFields(REQUIRED_ASSIGNMENT_FIELDS, assignment_data) # <<>>
    THEN Failed(st.trace, "Campos faltantes")
    ELSE IF assignment_data.application_type \notin valid_app_types
    THEN Failed(st.trace, "application_type debe ser 'sales_force' o 'merchandising'")
    ELSE
    LET business_unit == assignment_data.business_unit
        report_prefix == assignment_data.report_prefix
        roles == SelectRoles(business_unit, assignment_data.role_description, i \in revs)
        c2 == Execute([trace |-> st.trace, exc |-> NoExc], fault, "SELECT_ROLES",
                      <<business_unit, assignment_data.role_description>>, Len(roles)) IN
    IF c2.exc # NoExc THEN Failed(c2.trace, c2.exc) ELSE
    IF roles = <<>>
    THEN Failed(c2.trace, "No se encontró rol con descripción")
    ELSE
    LET role_code == roles[1].code
        exists == CountAssigned(st.table, business_unit, report_prefix, {role_code})
        c3 == Execute(c2, fault, "SELECT_COUNT",
                      <<business_unit, report_prefix, role_code>>, exists) IN
    IF c3.exc # NoExc THEN Failed(c3.trace, c3.exc) ELSE
    IF exists > 0
    THEN [st EXCEPT !.trace = c3.trace,
                    !.skipped = Append(st.skipped,
                        [index |-> i, report_prefix |-> report_prefix,
                         business_unit |-> business_unit, role_code |-> role_code])]
    ELSE
    LET row == AssignedRow(role_code, report_prefix, business_unit,
                   [application_type |-> Some(assignment_data.application_type),
                    order |-> Opt(assignment_data, "order"),
                    custom_tag |-> Opt(assignment_data, "custom_tag"),
                    sales_office |-> Opt(assignment_data, "sales_office"),
                    center_logistical |-> Opt(assignment_data, "center_logistical")])
        c4 == Execute(c3, fault, "INSERT", <<row>>, -1) IN
    IF c4.exc # NoExc THEN Failed(c4.trace, c4.exc) ELSE
    [st EXCEPT !.trace = c4.trace,
               !.table = InsertAssigned(st.table, row),
               !.successful = Append(st.successful,
                   [index |-> i, report_prefix |-> report_prefix,
                    business_unit |-> business_unit, role_code |-> role_code,
                    warning |-> Len(roles) > 1]),
               !.total_inserted = st.total_inserted + 1]

\* a loop that numbers the items from zero
RECURSIVE bulk_assign_loop_zero_based(_, _, _, _, _)
bulk_assign_loop_zero_based(i, st, fault, assignments_data, revs) ==
    IF i > Len(assignments_data) THEN st
    ELSE bulk_assign_loop_zero_based(i + 1,
             bulk_assign_item(st, fault, i - 1, assignments_data[i], revs),
             fault, assignments_data, revs)

RECURSIVE bulk_assign_loop(_, _, _, _, _)
bulk_assign_loop(i, st, fault, assignments_data, revs) ==
    IF i > Len(assignments_data) THEN st
    ELSE bulk_assign_loop(i + 1,
                          bulk_assign_item(st, fault, i, assignments_data[i], revs),
                          fault, assignments_data, revs)

bulk_assign_reports_to_roles_body(table, assignments_data, revs, fault) ==
    IF assignments_data = <<>>
    THEN ReturnW(Ctx0, Res("warning", "No se proporcionaron datos de asignaciones", <<>>),
                 table)
    ELSE
    LET c1 == get_db_connection(Ctx0, fault, "default") IN
    IF c1.exc # NoExc THEN RaiseW(c1, table) ELSE
    LET st == bulk_assign_loop(1, [trace |-> c1.trace, table |-> table,
                                   successful |-> <<>>, skipped |-> <<>>,
                                   failed |-> <<>>, total_inserted |-> 0],
                               fault, assignments_data, revs)
        c2 == Commit([trace |-> st.trace, exc |-> NoExc], fault) IN
    IF c2.exc # NoExc THEN RaiseW(c2, st.table) ELSE
    LET c3 == Close(c2, fault) IN
    IF c3.exc # NoExc THEN RaiseW(c3, st.table) ELSE
    ReturnW(c3, [glyph |-> "chart", msg |-> "Asignación masiva de reportes completada",
                 exc |-> NoExc, body |-> <<>>,
                 total_inserted |-> st.total_inserted,
                 successful |-> st.successful,
                 skipped |-> st.skipped,
                 failed |-> st.failed],
            st.table)

bulk_assign_reports_to_roles(table, assignments_data, revs, fault) ==
    try_except(bulk_assign_reports_to_roles_body(table, assignments_data, revs, fault),
               "Error en asignación masiva")

(***************************************************************************)
(* Recording an invocation.                                                *)
(***************************************************************************)
CountCalls(trace, call) ==
    Cardinality({i \in 1..Len(trace) : trace[i].call = call /\ ~trace[i].raised})

\* connections the invocation opened and did not close
Leak(trace) == CountCalls(trace, "connect") - CountCalls(trace, "close")

Raised(trace) == \E i \in 1..Len(trace) : trace[i].raised

\* the execute calls of the invocation that ran statement stmt
Executions(trace, stmt) ==
    Cardinality({i \in 1..Len(trace) : trace[i].call = "execute" /\ trace[i].stmt = stmt})

\* the calls of the invocation of one kind, raised or not
Attempts(trace, call) == Cardinality({i \in 1..Len(trace) : trace[i].call = call})

\* the text block starts with neither the warning nor the error glyph, and
\* nothing was raised on the way
SuccessMarked(o) ==
    /\ o.exc = NoExc
    /\ o.result.glyph \notin {"warning", "cross"}
    /\ ~Raised(o.trace)

Idle == [op |-> "none", args |-> <<>>, trace |-> <<>>,
         exc |-> NoExc, result |-> NoResult]

Invoke(op, args, o) ==
    /\ last.op = "none"
    /\ last' = [op |-> op, args |-> args, trace |-> o.trace,
                exc |-> o.exc, result |-> o.result]
    /\ UNCHANGED <<sessions, snapshot>>

\* the invocations that run side by side
ConcSessions == {"s1", "s2"}

\* an invocation that has not been received yet
NoSession ==
    [pc |-> "idle", op |-> "none", args |-> <<>>, i |-> 0, role_code |-> "",
     multiple |-> FALSE, own |-> EmptyBag, text |-> ""]

(***************************************************************************)
(* Inputs.                                                                 *)
(***************************************************************************)
TableNames == {"t1", "t2", "t9"}
DbKeyInputs == {"default", "INTEGRACION_CW_20_DEV", "other"}

Init ==
    /\ assigned_reports = EmptyBag
    /\ reports = {}
    /\ last = Idle
    /\ sessions = [s \in ConcSessions |-> NoSession]
    /\ snapshot = FALSE

\* the transport hands the text block to the caller
Respond ==
    /\ last.op # "none"
    /\ last' = Idle
    /\ UNCHANGED <<assigned_reports, reports, sessions, snapshot>>

Tool_get_table_structure ==
    /\ last.op = "none"
    /\ \E t \in TableNames, k \in DbKeyInputs :
       \E f \in FaultsFor(get_table_structure(t, k, 0).trace) :
           /\ Invoke("get_table_structure", [table_name |-> t, database_key |-> k],
                     get_table_structure(t, k, f))
           /\ UNCHANGED <<assigned_reports, reports>>

SchemaInputs == {"dbo", "audit"}
BusinessUnits == {"b1", "b2"}

QueryNames == {"Q_ok", "Q_none", "Q_case", "Q_two", "Q_sec"}

MaxQueryRows == 6
QueryRows == {0, 1, MaxQueryRows}

\* the names the callers put in lists: one the secondary catalog has, one
\* that no catalog has
ListTableNames == {"t2", "t9"}

\* every list of at most n elements of S
RECURSIVE SeqsUpTo(_, _)
SeqsUpTo(S, n) ==
    IF n = 0 THEN {<<>>}
    ELSE LET shorter == SeqsUpTo(S, n - 1)
         IN  shorter \cup {Append(s, x) : s \in shorter, x \in S}
TableLists == SeqsUpTo(ListTableNames, MaxItems)

Tool_list_tables ==
    /\ last.op = "none"
    /\ \E s \in SchemaInputs, k \in DbKeyInputs :
       \E f \in FaultsFor(list_tables(s, k, 0).trace) :
           /\ Invoke("list_tables", [schema |-> s, database_key |-> k],
                     list_tables(s, k, f))
           /\ UNCHANGED <<assigned_reports, reports>>

Tool_test_query ==
    /\ last.op = "none"
    /\ \E q \in QueryNames, bu \in BusinessUnits, k \in DbKeyInputs, n \in QueryRows :
       \E f \in FaultsFor(test_query(QueryText(q), bu, k, n, 0).trace) :
           /\ Invoke("test_query",
                     [query |-> q, business_unit |-> bu, database_key |-> k, nrows |-> n],
                     test_query(QueryText(q), bu, k, n, f))
           /\ UNCHANGED <<assigned_reports, reports>>

Tool_get_multiple_table_structures ==
    /\ last.op = "none"
    /\ \E ts \in TableLists, k \in DbKeyInputs :
       \E f \in FaultsFor(get_multiple_table_structures(ts, k, 0).trace) :
           /\ Invoke("get_multiple_table_structures",
                     [table_names |-> ts, database_key |-> k],
                     get_multiple_table_structures(ts, k, f))
           /\ UNCHANGED <<assigned_reports, reports>>

Tool_search_table_in_all_databases ==
    /\ last.op = "none"
    /\ \E t \in TableNames :
       \E f \in FaultsFor(search_table_in_all_databases(t, 0).trace) :
           /\ Invoke("search_table_in_all_databases", [table_name |-> t],
                     search_table_in_all_databases(t, f))
           /\ UNCHANGED <<assigned_reports, reports>>

Tool_get_table_structures_across_databases ==
    /\ last.op = "none"
    /\ \E ts \in TableLists :
       \E f \in FaultsFor(get_table_structures_across_databases(ts, 0).trace) :
           /\ Invoke("get_table_structures_across_databases", [table_names |-> ts],
                     get_table_structures_across_databases(ts, f))
           /\ UNCHANGED <<assigned_reports, reports>>

KeyLists ==
    {None, Some(<<>>), Some(<<"default">>),
     Some(<<"INTEGRACION_CW_20_DEV", "default">>), Some(<<"other", "default">>)}

Tool_bulk_search_tables_in_databases ==
    /\ last.op = "none"
    /\ \E ts \in TableLists, ks \in KeyLists :
       \E f \in FaultsFor(bulk_search_tables_in_databases(ts, ks, 0).trace) :
           /\ Invoke("bulk_search_tables_in_databases",
                     [table_names |-> ts, database_keys |-> ks],
                     bulk_search_tables_in_databases(ts, ks, f))
           /\ UNCHANGED <<assigned_reports, reports>>

\* a successful commit is among the driver calls
Committed(trace) ==
    \E i \in 1..Len(trace) : trace[i].call = "commit" /\ ~trace[i].raised

ReportPrefixes == {"r1"}
AdditionalParams ==
    {None, Some(<< <<"year", "INT">> >>), Some(<< <<"business_unit", "INT">> >>)}
KeyArgs == {None} \cup {Some(k) : k \in DbKeyInputs}

Tool_create_report ==
    /\ last.op = "none"
    /\ \E p \in ReportPrefixes, q \in QueryNames, ap \in AdditionalParams, k \in KeyArgs :
       \E f \in FaultsFor(create_report(p, q, ap, k, 0).trace) :
           LET o == create_report(p, q, ap, k, f) IN
           /\ Invoke("create_report",
                     [report_prefix |-> p, query |-> q, additional_params |-> ap,
                      database_key |-> k], o)
           /\ reports' = IF Committed(o.trace) THEN reports \cup o.pending ELSE reports
           /\ UNCHANGED assigned_reports

\* the dicts of reports_data the callers pass
ReportItems ==
    { [report_prefix |-> "r1", report_description_en |-> "en",
       report_description_es |-> "es", query |-> "Q_ok"],
      [report_prefix |-> "r1", report_description_en |-> "en",
       report_description_es |-> "es"],
      [report_prefix |-> "r1", report_description_en |-> "en",
       report_description_es |-> "es", query |-> "Q_none"],
      [report_prefix |-> "r1", report_description_en |-> "en",
       report_description_es |-> "es", query |-> "Q_ok",
       database_key |-> Some("other")],
      [report_prefix |-> "r1", report_description_en |-> "en",
       report_description_es |-> "es", query |-> "Q_sec",
       additional_params |-> Some(<< <<"business_unit", "INT">> >>)] }
ReportLists == SeqsUpTo(ReportItems, MaxItems)

Tool_bulk_create_reports ==
    /\ last.op = "none"
    /\ \E rs \in ReportLists :
       \E f \in FaultsFor(bulk_create_reports(rs, 0).trace) :
           LET o == bulk_create_reports(rs, f) IN
           /\ Invoke("bulk_create_reports", [reports_data |-> rs], o)
           /\ reports' = IF Committed(o.trace) THEN reports \cup o.pending ELSE reports
           /\ UNCHANGED assigned_reports

AssignPrefixes == {"r1"}
RoleDescriptions == {<<"a","d","m">>, <<"a","d","m","i","n","2">>, <<"s","y","s">>}

NoFields ==
    [application_type |-> None, order |-> None, custom_tag |-> None,
     sales_office |-> None, center_logistical |-> None]
\* the optional arguments assign_report_to_role is called with
AssignFields ==
    {[NoFields EXCEPT !.custom_tag = Some("tag")],
     [NoFields EXCEPT !.application_type = Some("sales_force"),
                      !.order = Some(1), !.custom_tag = Some("tag")]}

Tool_assign_report_to_role ==
    /\ last.op = "none"
    /\ \E p \in AssignPrefixes, bu \in BusinessUnits, d \in RoleDescriptions,
          fl \in AssignFields, rev \in BOOLEAN :
       \E f \in FaultsFor(assign_report_to_role(assigned_reports, p, bu, d, fl, rev, 0).trace) :
           LET o == assign_report_to_role(assigned_reports, p, bu, d, fl, rev, f) IN
           /\ Invoke("assign_report_to_role",
                     [report_prefix |-> p, business_unit |-> bu,
                      role_description |-> d, fields |-> fl], o)
           /\ assigned_reports' = IF Committed(o.trace) THEN o.pending
                                   ELSE assigned_reports
           /\ UNCHANGED reports

\* the values update_report_assignment is called with
UpdateFields ==
    {NoFields,
     [NoFields EXCEPT !.application_type = Some("sales_force"), !.order = Some(1)]}
RoleCodes == {"R1", "R2", "R9"}

Tool_update_report_assignment ==
    /\ last.op = "none"
    /\ \E p \in AssignPrefixes, bu \in BusinessUnits, rc \in RoleCodes,
          fl \in UpdateFields :
       \E f \in FaultsFor(update_report_assignment(assigned_reports, p, bu, rc, fl, 0).trace) :
           LET o == update_report_assignment(assigned_reports, p, bu, rc, fl, f) IN
           /\ Invoke("update_report_assignment",
                     [report_prefix |-> p, business_unit |-> bu,
                      role_code |-> rc, fields |-> fl], o)
           /\ assigned_reports' = IF Committed(o.trace) THEN o.pending
                                   ELSE assigned_reports
           /\ UNCHANGED reports

RoleCodeLists == SeqsUpTo(RoleCodes, MaxItems)

Tool_bulk_update_report_assignments ==
    /\ last.op = "none"
    /\ \E p \in AssignPrefixes, bu \in BusinessUnits, rcs \in RoleCodeLists,
          fl \in UpdateFields :
       \E f \in FaultsFor(bulk_update_report_assignments(assigned_reports, p, bu,
                                                         rcs, fl, 0).trace) :
           LET o == bulk_update_report_assignments(assigned_reports, p, bu, rcs, fl, f) IN
           /\ Invoke("bulk_update_report_assignments",
                     [report_prefix |-> p, business_unit |-> bu,
                      role_codes |-> rcs, fields |-> fl], o)
           /\ assigned_reports' = IF Committed(o.trace) THEN o.pending
                                   ELSE assigned_reports
           /\ UNCHANGED reports

Tool_list_available_roles ==
    /\ last.op = "none"
    /\ \E bu \in BusinessUnits :
       \E f \in FaultsFor(list_available_roles(bu, 0).trace) :
           /\ Invoke("list_available_roles", [business_unit |-> bu],
                     list_available_roles(bu, f))
           /\ UNCHANGED <<assigned_reports, reports>>

QueryPrefixes == {"r1", "r2"}
BusinessUnitArgs == {None} \cup {Some(bu) : bu \in BusinessUnits}

Tool_get_report_assignments ==
    /\ last.op = "none"
    /\ \E p \in QueryPrefixes, bu \in BusinessUnitArgs :
       \E f \in FaultsFor(get_report_assignments(assigned_reports, p, bu, 0).trace) :
           /\ Invoke("get_report_assignments",
                     [report_prefix |-> p, business_unit |-> bu],
                     get_report_assignments(assigned_reports, p, bu, f))
           /\ UNCHANGED <<assigned_reports, reports>>

PrefixLists == SeqsUpTo(QueryPrefixes, MaxItems)

Tool_bulk_get_report_assignments ==
    /\ last.op = "none"
    /\ \E ps \in PrefixLists, bu \in BusinessUnitArgs :
       \E f \in FaultsFor(bulk_get_report_assignments(assigned_reports, ps, bu, 0).trace) :
           /\ Invoke("bulk_get_report_assignments",
                     [report_prefixes |-> ps, business_unit |-> bu],
                     bulk_get_report_assignments(assigned_reports, ps, bu, f))
           /\ UNCHANGED <<assigned_reports, reports>>

\* the dicts of assignments_data the callers pass
AssignmentItems ==
    { [report_prefix |-> "r1", business_unit |-> "b1",
       role_description |-> <<"a","d","m">>, application_type |-> "sales_force",
       order |-> 1, custom_tag |-> "tag"],
      [report_prefix |-> "r1", business_unit |-> "b1",
       role_description |-> <<"a","d","m","i","n","2">>,
       application_type |-> "sales_force",
       order |-> 1, custom_tag |-> "tag"],
      [report_prefix |-> "r1", business_unit |-> "b1",
       role_description |-> <<"a","d","m">>],
      [report_prefix |-> "r1", business_unit |-> "b1",
       role_description |-> <<"a","d","m">>, application_type |-> "bogus"],
      [report_prefix |-> "r1", business_unit |-> "b2",
       role_description |-> <<"s","y","s">>, application_type |-> "sales_force"] }
AssignmentLists == SeqsUpTo(AssignmentItems, MaxItems)

\* the passes whose role query returns more than one row
MultiplePasses(as) ==
    {i \in 1..Len(as) :
        /\ MissingFields(REQUIRED_ASSIGNMENT_FIELDS, as[i]) = <<>>
        /\ Len(SelectRoles(as[i].business_unit, as[i].role_description, FALSE)) > 1}

Tool_bulk_assign_reports_to_roles ==
    /\ last.op = "none"
    /\ \E as \in AssignmentLists :
       \E revs \in SUBSET MultiplePasses(as) :
       \E f \in FaultsFor(bulk_assign_reports_to_roles(assigned_reports, as, revs, 0).trace) :
           LET o == bulk_assign_reports_to_roles(assigned_reports, as, revs, f) IN
           /\ Invoke("bulk_assign_reports_to_roles", [assignments_data |-> as], o)
           /\ assigned_reports' = IF Committed(o.trace) THEN o.pending
                                   ELSE assigned_reports
           /\ UNCHANGED reports

Next ==
    \/ Respond
    \/ Tool_get_table_structure
    \/ Tool_list_tables
    \/ Tool_test_query
    \/ Tool_get_multiple_table_structures
    \/ Tool_search_table_in_all_databases
    \/ Tool_get_table_structures_across_databases
    \/ Tool_bulk_search_tables_in_databases
    \/ Tool_create_report
    \/ Tool_bulk_create_reports
    \/ Tool_assign_report_to_role
    \/ Tool_bulk_assign_reports_to_roles
    \/ Tool_update_report_assignment
    \/ Tool_bulk_update_report_assignments
    \/ Tool_list_available_roles
    \/ Tool_get_report_assignments
    \/ Tool_bulk_get_report_assignments

Spec == Init /\ [][Next]_vars

(***************************************************************************)
(* Assignment invocations side by side.  The hosting framework may run     *)
(* tool calls in parallel, and each call opens its own connection: the     *)
(* statements of assign_report_to_role and bulk_assign_reports_to_roles    *)
(* then interleave at the database.  A connection reads the committed rows *)
(* and the rows it has inserted itself; its inserts reach the others when  *)
(* it commits.  Driver calls do not fail here.                             *)
(***************************************************************************)
\* the arguments the concurrent callers of assign_report_to_role pass
ConcAssignArgs ==
    {[report_prefix |-> "r1", business_unit |-> "b1", role_description |-> d,
      fields |-> [NoFields EXCEPT !.application_type = Some("sales_force"),
                                  !.order = Some(1), !.custom_tag = Some("tag")]] :
        d \in {<<"a","d","m">>, <<"a","d","m","i","n","2">>}}

\* the lists the concurrent callers of bulk_assign_reports_to_roles pass
ConcAssignmentLists ==
    LET items ==
          { [report_prefix |-> "r1", business_unit |-> "b1",
             role_description |-> <<"a","d","m">>, application_type |-> "sales_force",
             order |-> 1, custom_tag |-> "tag"],
            [report_prefix |-> "r1", business_unit |-> "b1",
             role_description |-> <<"a","d","m">>, application_type |-> "bogus"],
            [report_prefix |-> "r1", business_unit |-> "b2",
             role_description |-> <<"s","y","s">>, application_type |-> "sales_force"] }
    IN  SeqsUpTo(items, MaxItems)

\* the dict the invocation is working on
ItemOf(se) ==
    IF se.op = "assign_report_to_role" THEN se.args
    ELSE se.args.assignments_data[se.i]

\* the values of the optional columns of the row the invocation inserts
FieldsOf(se) ==
    IF se.op = "assign_report_to_role" THEN se.args.fields
    ELSE LET d == ItemOf(se) IN
         [application_type |-> Some(d.application_type),
          order |-> Opt(d, "order"), custom_tag |-> Opt(d, "custom_tag"),
          sales_office |-> Opt(d, "sales_office"),
          center_logistical |-> Opt(d, "center_logistical")]

\* bulk_assign_reports_to_roles goes to its next item (continue, or the end
\* of the try block), and to the commit after the last one
NextItem(se) ==
    IF se.i < Len(se.args.assignments_data)
    THEN [se EXCEPT !.pc = "roles", !.i = se.i + 1]
    ELSE [se EXCEPT !.pc = "commit"]

InitConc ==
    /\ assigned_reports = EmptyBag
    /\ reports = {}
    /\ last = Idle
    /\ sessions = [s \in ConcSessions |-> NoSession]
    /\ snapshot \in BOOLEAN

\* assign_report_to_role is invoked and opens its connection
Start_assign_report_to_role ==
    \E s \in ConcSessions, a \in ConcAssignArgs :
        /\ sessions[s].pc = "idle"
        /\ sessions' = [sessions EXCEPT ![s] =
               [NoSession EXCEPT !.pc = "roles", !.op = "assign_report_to_role",
                                 !.args = a, !.i = 1]]
        /\ UNCHANGED <<assigned_reports, reports, last, snapshot>>

\* bulk_assign_reports_to_roles is invoked; it returns at once for an empty
\* list, and opens its connection otherwise
Start_bulk_assign_reports_to_roles ==
    \E s \in ConcSessions, as \in ConcAssignmentLists :
        /\ sessions[s].pc = "idle"
        /\ sessions' = [sessions EXCEPT ![s] =
               IF as = <<>>
               THEN [NoSession EXCEPT !.pc = "done",
                                      !.op = "bulk_assign_reports_to_roles",
                                      !.args = [assignments_data |-> as],
                                      !.text = "No se proporcionaron datos de asignaciones"]
               ELSE [NoSession EXCEPT !.pc = "roles",
                                      !.op = "bulk_assign_reports_to_roles",
                                      !.args = [assignments_data |-> as], !.i = 1]]
        /\ UNCHANGED <<assigned_reports, reports, last, snapshot>>

\* the role query (in the bulk operation, after the item's validation)
Step_select_roles ==
    \E s \in ConcSessions, rev \in BOOLEAN :
        LET se == sessions[s]
            d == ItemOf(se)
            roles == SelectRoles(d.business_unit, d.role_description, rev)
        IN
        /\ se.pc = "roles"
        /\ sessions' = [sessions EXCEPT ![s] =
               IF se.op = "bulk_assign_reports_to_roles"
                  /\ \/ MissingFields(REQUIRED_ASSIGNMENT_FIELDS, d) # <<>>
                     \/ d.application_type \notin valid_app_types
               THEN NextItem(se)
               ELSE IF roles = <<>>
               THEN IF se.op = "assign_report_to_role"
                    \* returns from where it is: no commit, no close
                    THEN [se EXCEPT !.pc = "done",
                                    !.text = "No se encontró ningún rol"]
                    ELSE NextItem(se)
               ELSE [se EXCEPT !.pc = "check", !.role_code = roles[1].code,
                               !.multiple = Len(roles) > 1]]
        /\ UNCHANGED <<assigned_reports, reports, last, snapshot>>

\* the existence check: SELECT COUNT(*) ... WHERE business_unit = ? AND
\* report_prefix = ? AND [role] = ?  The connection reads the committed rows
\* and its own inserts; it waits for the rows other connections have
\* inserted and not committed, unless the engine reads by row version.
Step_select_count ==
    \E s \in ConcSessions :
        LET se == sessions[s]
            d == ItemOf(se)
            exists == CountAssigned(assigned_reports (+) se.own, d.business_unit,
                                    d.report_prefix, {se.role_code})
        IN
        /\ se.pc = "check"
        /\ snapshot \/ \A t \in ConcSessions \ {s} : sessions[t].own = EmptyBag
        /\ sessions' = [sessions EXCEPT ![s] =
               IF exists > 0
               THEN IF se.op = "assign_report_to_role"
                    THEN [se EXCEPT !.pc = "done",
                                    !.text = "ya está asignado al rol"]
                    ELSE NextItem(se)
               ELSE [se EXCEPT !.pc = "insert"]]
        /\ UNCHANGED <<assigned_reports, reports, last, snapshot>>

\* the INSERT, in the connection's open transaction
Step_insert ==
    \E s \in ConcSessions :
        LET se == sessions[s]
            d == ItemOf(se)
            row == AssignedRow(se.role_code, d.report_prefix, d.business_unit,
                               FieldsOf(se))
            inserted == [se EXCEPT !.own = InsertAssigned(se.own, row)]
        IN
        /\ se.pc = "insert"
        /\ sessions' = [sessions EXCEPT ![s] =
               IF se.op = "assign_report_to_role"
               THEN [inserted EXCEPT !.pc = "commit"]
               ELSE NextItem(inserted)]
        /\ UNCHANGED <<assigned_reports, reports, last, snapshot>>

\* conn.commit(): the connection's inserts become committed rows
Step_commit ==
    \E s \in ConcSessions :
        /\ sessions[s].pc = "commit"
        /\ assigned_reports' = assigned_reports (+) sessions[s].own
        /\ sessions' = [sessions EXCEPT ![s].pc = "close", ![s].own = EmptyBag]
        /\ UNCHANGED <<reports, last, snapshot>>

\* conn.close() and the text block
Step_close ==
    \E s \in ConcSessions :
        /\ sessions[s].pc = "close"
        /\ sessions' = [sessions EXCEPT ![s] =
               [sessions[s] EXCEPT
                   !.pc = "done",
                   !.text = IF sessions[s].op = "assign_report_to_role"
                            THEN "Reporte asignado exitosamente"
                            ELSE "Asignación masiva de reportes completada"]]
        /\ UNCHANGED <<assigned_reports, reports, last, snapshot>>

NextConc ==
    \/ Start_assign_report_to_role
    \/ Start_bulk_assign_reports_to_roles
    \/ Step_select_roles
    \/ Step_select_count
    \/ Step_insert
    \/ Step_commit
    \/ Step_close

SpecConc == InitConc /\ [][NextConc]_vars

(***************************************************************************)
(* Properties.                                                             *)
(***************************************************************************)
\* C1: assign_report_to_role called again with arguments that resolve to the
\* same role code: the call that finds no (business_unit, report_prefix,
\* role) row inserts one and commits; the call that finds the row returns
\* the already-assigned message, executes no INSERT, issues no commit and
\* leaves the table as it was; so no triple ever has more than one row.
C1_RepeatedAssignKeepsOneRow ==
    /\ [](\A r \in BagToSet(assigned_reports) :
             BagCardinality(Matching(assigned_reports, r.business_unit,
                                     r.report_prefix, {r.role})) = 1)
    /\ [][(last'.op = "assign_report_to_role" /\ "role_code" \in DOMAIN last'.result) =>
            LET a == last'.args
                rc == last'.result.role_code
                before == BagCardinality(Matching(assigned_reports, a.business_unit,
                                                  a.report_prefix, {rc}))
                after == BagCardinality(Matching(assigned_reports', a.business_unit,
                                                 a.report_prefix, {rc}))
            IN  IF before > 0
                THEN /\ last'.result.glyph = "warning"
                     /\ last'.result.msg = "ya está asignado al rol"
                     /\ Executions(last'.trace, "INSERT") = 0
                     /\ Attempts(last'.trace, "commit") = 0
                     /\ assigned_reports' = assigned_reports
                ELSE /\ Executions(last'.trace, "INSERT") = 1
                     /\ Committed(last'.trace)
                     /\ after = 1]_vars

\* the second call: the row is there, the answer is the already-assigned message
C1_Witness ==
    /\ last.op = "assign_report_to_role"
    /\ last.result.msg = "ya está asignado al rol"
    /\ BagCardinality(Matching(assigned_reports, last.args.business_unit,
                               last.args.report_prefix,
                               {last.result.role_code})) = 1

\* C2 as stated: create_report and bulk_create_reports make no database call
\* at all (no connection, no statement, no commit) when the query text of
\* the item, or of every item of the batch, lacks '@business_unit'.
C2_Original ==
    /\ (last.op = "create_report"
        /\ ~Contains(QueryText(last.args.query), PLACEHOLDER))
       => last.trace = <<>>
    /\ (last.op = "bulk_create_reports"
        /\ last.args.reports_data # <<>>
        /\ \A i \in DOMAIN last.args.reports_data :
              /\ "query" \in DOMAIN last.args.reports_data[i]
              /\ ~Contains(QueryText(last.args.reports_data[i].query), PLACEHOLDER))
       => last.trace = <<>>

\* C2 amended: an item whose query text lacks '@business_unit' is rejected
\* before any statement is executed for it.  create_report then makes no
\* driver call at all and returns the warning; bulk_create_reports never
\* runs the stored procedure for such an item and lists it as failed, while
\* the batch keeps its one shared connection and its one final commit.
C2_NoStatementWithoutPlaceholder ==
    /\ (last.op = "create_report"
        /\ ~Contains(QueryText(last.args.query), PLACEHOLDER))
       => /\ last.trace = <<>>
          /\ last.result.glyph = "warning"
    /\ last.op \in {"create_report", "bulk_create_reports"}
       => \A i \in DOMAIN last.trace :
              last.trace[i].stmt = "EXEC_SP"
              => Contains(QueryText(last.trace[i].params[4]), PLACEHOLDER)
    /\ last.op = "bulk_create_reports"
       => LET items == last.args.reports_data
              Lacks(i) == /\ MissingFields(REQUIRED_REPORT_FIELDS, items[i]) = <<>>
                          /\ ~Contains(QueryText(items[i].query), PLACEHOLDER)
          IN  /\ Executions(last.trace, "EXEC_SP")
                   <= Cardinality({i \in DOMAIN items : ~Lacks(i)})
              /\ Attempts(last.trace, "commit") <= 1
              /\ "failed" \in DOMAIN last.result
                 => \A i \in DOMAIN items :
                       Lacks(i) => \E j \in DOMAIN last.result.failed :
                                      /\ last.result.failed[j].index = i
                                      /\ last.result.failed[j].error =
                                           "La query debe incluir el parámetro @business_unit"

\* a batch with an item that lacks the placeholder next to one that was created
C2_Witness ==
    /\ last.op = "bulk_create_reports"
    /\ "failed" \in DOMAIN last.result
    /\ last.result.total_created = 1
    /\ \E j \in DOMAIN last.result.failed :
          last.result.failed[j].error =
              "La query debe incluir el parámetro @business_unit"

\* C3 as stated: update_report_assignment with the five optional fields
\* unset returns the 'no fields to update' warning and runs no UPDATE and no
\* commit, whether or not the assignment exists.
C3_Original ==
    (last.op = "update_report_assignment"
     /\ last.args.fields = NoFields
     /\ ~Raised(last.trace))
    => /\ last.result.glyph = "warning"
       /\ last.result.msg = "No se proporcionaron campos para actualizar"
       /\ Executions(last.trace, "UPDATE") = 0
       /\ Attempts(last.trace, "commit") = 0

\* C3 amended: update_report_assignment with the five optional fields unset
\* runs no UPDATE and no commit; it returns the 'no fields to update'
\* warning when the assignment exists, and the error-prefixed not-found
\* string when it does not (the existence check comes first).
C3_NoFieldsNoUpdate ==
    (last.op = "update_report_assignment" /\ last.args.fields = NoFields)
    => LET a == last.args
           exists == BagCardinality(Matching(assigned_reports, a.business_unit,
                                             a.report_prefix, {a.role_code})) > 0
       IN  /\ Executions(last.trace, "UPDATE") = 0
           /\ Attempts(last.trace, "commit") = 0
           /\ ~Raised(last.trace) =>
                 IF exists
                 THEN /\ last.result.glyph = "warning"
                      /\ last.result.msg = "No se proporcionaron campos para actualizar"
                 ELSE /\ last.result.glyph = "cross"
                      /\ last.result.msg = "No existe una asignación"

\* the assignment exists and no field was supplied
C3_Witness ==
    /\ last.op = "update_report_assignment"
    /\ last.args.fields = NoFields
    /\ last.result.msg = "No se proporcionaron campos para actualizar"
    /\ assigned_reports # EmptyBag

\* C4: get_db_connection(key): a key that is not in the registry fails with
\* ValueError before any connection attempt; a key in the registry makes
\* exactly one connection attempt, with the driver, server, database,
\* username and password of that key's registry entry.
C4_ConnectionFollowsRegistry ==
    /\ \A i \in DOMAIN last.trace :
          last.trace[i].call = "connect"
          => /\ last.trace[i].key \in DOMAIN DB_CONFIGS
             /\ LET entry == DB_CONFIGS[last.trace[i].key]
                IN  last.trace[i].conn =
                        <<entry.driver, entry.server, entry.database,
                          entry.username, entry.password>>
    /\ (\/ last.op \in {"get_table_structure", "list_tables"}
        \/ last.op = "get_multiple_table_structures" /\ last.args.table_names # <<>>
        \/ last.op = "test_query"
           /\ Contains(QueryText(last.args.query), PLACEHOLDER))
       => IF last.args.database_key \in DOMAIN DB_CONFIGS
          THEN /\ Attempts(last.trace, "connect") = 1
               /\ last.trace[1].call = "connect"
               /\ last.trace[1].key = last.args.database_key
          ELSE /\ last.trace = <<>>
               /\ last.result.exc = "ValueError"

\* a connection made for the secondary key, with the secondary entry's values
C4_Witness ==
    /\ last.op = "list_tables"
    /\ last.args.database_key = "INTEGRACION_CW_20_DEV"
    /\ Attempts(last.trace, "connect") = 1
    /\ last.trace[1].conn[3] = "INTEGRACION_CW_20_DEV"
    /\ ~Raised(last.trace)

\* C5: in bulk_create_reports a failing item never aborts the batch: once
\* the batch has its connection, the stored procedure is called for every
\* item that has its required fields and the placeholder, whatever failed
\* before it (a missing field, a missing placeholder, an error raised by an
\* earlier call of the procedure); a batch of one valid and one invalid item
\* reports exactly one success and one failure, in either order.
C5_FailingItemDoesNotAbortBatch ==
    last.op = "bulk_create_reports"
    => LET items == last.args.reports_data
           Runs(i) == /\ MissingFields(REQUIRED_REPORT_FIELDS, items[i]) = <<>>
                      /\ Contains(QueryText(items[i].query), PLACEHOLDER)
           Valid(i) == /\ Runs(i)
                       /\ query_database_key(QueryText(items[i].query),
                                             Get(items[i], "database_key", None))
                            \in DOMAIN DB_CONFIGS
       IN  /\ (Len(last.trace) > 0 /\ ~last.trace[1].raised)
              => Executions(last.trace, "EXEC_SP")
                   = Cardinality({i \in DOMAIN items : Runs(i)})
           /\ (/\ Len(items) = 2
               /\ \E i, j \in DOMAIN items : i # j /\ Valid(i) /\ ~Runs(j)
               /\ ~Raised(last.trace))
              => /\ last.result.total_created = 1
                 /\ Len(last.result.successful) = 1
                 /\ Len(last.result.failed) = 1

\* the invalid item comes first and the valid item after it is created
C5_Witness ==
    /\ last.op = "bulk_create_reports"
    /\ Len(last.args.reports_data) = 2
    /\ "failed" \in DOMAIN last.result
    /\ Len(last.result.failed) = 1
    /\ last.result.failed[1].index = 1
    /\ Len(last.result.successful) = 1
    /\ last.result.successful[1].index = 2

\* C6: role resolution never selects a default_roles row of application
\* type 'sys_admin': no assigned_reports row and no INSERT carries the code
\* of a sys_admin role of its business unit, list_available_roles lists no
\* sys_admin role, and when the only rows matching the business unit and
\* the description are sys_admin rows the outcome is not-found, with no
\* INSERT.
C6_SysAdminNeverResolved ==
    LET SysAdmin(code, bu) ==
            \E i \in DOMAIN DefaultRoles :
                /\ DefaultRoles[i].code = code
                /\ DefaultRoles[i].business_unit = bu
                /\ DefaultRoles[i].application_type = "sys_admin"
        OnlySysAdmin(bu, d) ==
            \A i \in DOMAIN DefaultRoles :
                (DefaultRoles[i].business_unit = bu
                 /\ Contains(DefaultRoles[i].description, d))
                => DefaultRoles[i].application_type = "sys_admin"
    IN  /\ \A r \in BagToSet(assigned_reports) : ~SysAdmin(r.role, r.business_unit)
        /\ \A i \in DOMAIN last.trace :
              last.trace[i].stmt = "INSERT"
              => ~SysAdmin(last.trace[i].params[1].role,
                           last.trace[i].params[1].business_unit)
        /\ (last.op = "list_available_roles" /\ last.result.glyph = "people")
           => \A i \in DOMAIN last.result.body :
                 last.result.body[i].application_type # "sys_admin"
        /\ (/\ last.op = "assign_report_to_role"
            /\ OnlySysAdmin(last.args.business_unit, last.args.role_description)
            /\ ~Raised(last.trace))
           => /\ last.result.glyph = "cross"
              /\ last.result.msg = "No se encontró ningún rol"
              /\ Executions(last.trace, "INSERT") = 0
        /\ (last.op = "bulk_assign_reports_to_roles" /\ "failed" \in DOMAIN last.result)
           => LET items == last.args.assignments_data
              IN  \A i \in DOMAIN items :
                     (/\ MissingFields(REQUIRED_ASSIGNMENT_FIELDS, items[i]) = <<>>
                      /\ items[i].application_type \in {"sales_force", "merchandising"}
                      /\ OnlySysAdmin(items[i].business_unit, items[i].role_description)
                      /\ ~Raised(last.trace))
                     => \E j \in DOMAIN last.result.failed :
                           /\ last.result.failed[j].index = i
                           /\ last.result.failed[j].error =
                                "No se encontró rol con descripción"

\* the description matches a sys_admin role only, and the answer is not-found
C6_Witness ==
    /\ last.op = "assign_report_to_role"
    /\ last.args.business_unit = "b1"
    /\ last.args.role_description = <<"s","y","s">>
    /\ \E i \in DOMAIN DefaultRoles :
          /\ DefaultRoles[i].business_unit = "b1"
          /\ Contains(DefaultRoles[i].description, <<"s","y","s">>)
    /\ last.result.msg = "No se encontró ningún rol"

\* C7: the table-name introspection operations never show a found-table
\* block with an empty column list, and a requested table the catalog of a
\* database has no columns for gets a not-found message there (its own
\* line, or the line saying that none of the requested tables was found),
\* never a found block.
C7_NotFoundIsDistinct ==
    LET DbOf(key) == DB_CONFIGS[key].database
        InCatalog(key, t) == \E i \in DOMAIN Catalog(key) : Catalog(key)[i].table = t
        body == last.result.body
        Found(key, t) ==
            \E i \in DOMAIN body :
                body[i].tag = "found" /\ body[i].db = DbOf(key) /\ body[i].name = t
        NotFound(key, t) ==
            \E i \in DOMAIN body :
                /\ body[i].db = DbOf(key)
                /\ \/ body[i].tag = "not_found" /\ body[i].name = t
                   \/ body[i].tag = "none_found"
        Told(key, t) == IF InCatalog(key, t)
                        THEN Found(key, t)
                        ELSE NotFound(key, t) /\ ~Found(key, t)
        Visited == IF last.op = "bulk_search_tables_in_databases"
                   THEN IF last.args.database_keys = None
                        THEN {"default", "INTEGRACION_CW_20_DEV"}
                        ELSE Range(last.args.database_keys[1])
                   ELSE {"default", "INTEGRACION_CW_20_DEV"}
    IN
    /\ last.op \in {"get_table_structure", "get_multiple_table_structures",
                    "search_table_in_all_databases",
                    "get_table_structures_across_databases",
                    "bulk_search_tables_in_databases"}
       => \A i \in DOMAIN body : body[i].tag = "found" => body[i].cols # <<>>
    /\ (/\ last.op = "get_table_structure"
        /\ last.args.database_key \in DOMAIN DB_CONFIGS
        /\ ~Raised(last.trace))
       => /\ Told(last.args.database_key, last.args.table_name)
          /\ InCatalog(last.args.database_key, last.args.table_name)
             <=> last.result.glyph = "clipboard"
    /\ (/\ last.op = "get_multiple_table_structures"
        /\ last.args.database_key \in DOMAIN DB_CONFIGS
        /\ ~Raised(last.trace))
       => \A t \in Range(last.args.table_names) : Told(last.args.database_key, t)
    /\ (last.op = "search_table_in_all_databases" /\ ~Raised(last.trace))
       => \A key \in Visited : Told(key, last.args.table_name)
    /\ (/\ last.op \in {"get_table_structures_across_databases",
                        "bulk_search_tables_in_databases"}
        /\ last.result.glyph = "magnifier"
        /\ ~Raised(last.trace))
       => \A key \in Visited : \A t \in Range(last.args.table_names) : Told(key, t)

\* one database has one of the requested tables and not the other
C7_Witness ==
    /\ last.op = "get_table_structures_across_databases"
    /\ ~Raised(last.trace)
    /\ \E i, j \in DOMAIN last.result.body :
          /\ last.result.body[i].tag = "found"
          /\ last.result.body[j].tag = "not_found"
          /\ last.result.body[i].db = last.result.body[j].db

C9_Original ==
    (/\ \/ last.op \in {"get_table_structure", "list_tables"}
        \/ last.op = "get_multiple_table_structures" /\ last.args.table_names # <<>>
        \/ last.op = "test_query" /\ Contains(QueryText(last.args.query), PLACEHOLDER)
     /\ last.args.database_key \notin DOMAIN DB_CONFIGS)
    => last.exc = "ValueError"

\* C9 amended: an unknown database key given to get_table_structure,
\* list_tables, test_query or get_multiple_table_structures raises the
\* configuration error (ValueError) before any connection attempt, and the
\* calling operation catches it and returns it as an error-prefixed string.
C9_UnknownKeyIsReturnedAsError ==
    (/\ \/ last.op \in {"get_table_structure", "list_tables"}
        \/ last.op = "get_multiple_table_structures" /\ last.args.table_names # <<>>
        \/ last.op = "test_query" /\ Contains(QueryText(last.args.query), PLACEHOLDER)
     /\ last.args.database_key \notin DOMAIN DB_CONFIGS)
    => /\ last.exc = NoExc
       /\ last.result.glyph = "cross"
       /\ last.result.exc = "ValueError"
       /\ last.trace = <<>>

\* test_query with the placeholder and a key the registry does not have
C9_Witness ==
    /\ last.op = "test_query"
    /\ last.args.database_key = "other"
    /\ Contains(QueryText(last.args.query), PLACEHOLDER)
    /\ last.result.exc = "ValueError"

\* C10: an operation that returns a success-marked result has closed every
\* connection it opened (test_query succeeding with zero rows included), so
\* no connection stays open after success-marked results.
C10_SuccessClosesConnection ==
    SuccessMarked(last) => Leak(last.trace) = 0

\* C11: the leading glyph of the returned text gives the outcome class: a
\* not-found outcome (no matching role, no matching table, no existing
\* assignment) starts with the error glyph and never with the warning glyph,
\* and a validation error (query without '@business_unit', empty input
\* list, empty update field set) starts with the warning glyph.
C11_GlyphGivesOutcomeClass ==
    LET NoTable(key, names) == SelectColumns(key, names) = <<>>
        NotFound ==
            \/ /\ last.op = "get_table_structure"
               /\ last.args.database_key \in DOMAIN DB_CONFIGS
               /\ NoTable(last.args.database_key, {last.args.table_name})
            \/ /\ last.op = "get_multiple_table_structures"
               /\ last.args.table_names # <<>>
               /\ last.args.database_key \in DOMAIN DB_CONFIGS
               /\ NoTable(last.args.database_key, Range(last.args.table_names))
            \/ last.result.msg \in {"No se encontró ningún rol",
                                    "No existe una asignación",
                                    "No existen asignaciones"}
        Validation ==
            \/ /\ last.op \in {"test_query", "create_report"}
               /\ ~Contains(QueryText(last.args.query), PLACEHOLDER)
            \/ /\ last.op \in {"get_multiple_table_structures",
                               "get_table_structures_across_databases",
                               "bulk_search_tables_in_databases"}
               /\ last.args.table_names = <<>>
            \/ last.result.msg = "No se proporcionaron campos para actualizar"
    IN
    (last.op # "none" /\ ~Raised(last.trace))
    => /\ NotFound => last.result.glyph = "cross"
       /\ Validation => last.result.glyph = "warning"

\* C12: the prefix of the returned text tells success from warning from
\* error: when assign_report_to_role has inserted a row and committed it,
\* the text starts with the success glyph, and a text that starts with the
\* warning glyph comes from a call that committed no write.
C12_PrefixTellsCommit ==
    LET Wrote == \E i \in 1..Len(last.trace) :
                     /\ last.trace[i].call = "execute"
                     /\ last.trace[i].stmt \in {"INSERT", "UPDATE", "EXEC_SP"}
                     /\ ~last.trace[i].raised
    IN
    /\ (/\ last.op = "assign_report_to_role"
        /\ Executions(last.trace, "INSERT") > 0
        /\ Committed(last.trace)
        /\ ~Raised(last.trace))
       => last.result.glyph = "check"
    /\ (last.op # "none" /\ last.result.glyph = "warning")
       => ~(Wrote /\ Committed(last.trace))

\* C13: create_report and bulk_create_reports open one connection at most,
\* with the registry key 'default' and the connection string of the default
\* entry, whatever the database_key (argument or item field) and the query
\* text say, and the stored procedure is executed only after that
\* connection was opened; they never open a connection to the secondary
\* database.
C13_ProcedureRunsOnDefaultOnly ==
    LET trace == last.trace
        Connects == {i \in 1..Len(trace) : trace[i].call = "connect"}
    IN
    last.op \in {"create_report", "bulk_create_reports"}
    => /\ Cardinality(Connects) <= 1
       /\ \A i \in Connects :
             /\ trace[i].key = "default"
             /\ trace[i].conn = conn_string(DB_CONFIGS["default"])
             /\ trace[i].conn # conn_string(DB_CONFIGS["INTEGRACION_CW_20_DEV"])
       /\ \A i \in 1..Len(trace) :
             (trace[i].call = "execute" /\ trace[i].stmt = "EXEC_SP")
             => \E j \in Connects : j < i /\ ~trace[j].raised

\* the procedure ran for a query the caller attributes to the secondary
\* database
C13_Witness ==
    /\ last.op = "create_report"
    /\ last.args.database_key = Some("INTEGRACION_CW_20_DEV")
    /\ Executions(last.trace, "EXEC_SP") = 1
    /\ last.result.glyph = "check"
    /\ last.result.query_database = "INTEGRACION_CW_20_DEV"

\* C14: the database a query is attributed to.  With no database_key the
\* attribution is 'INTEGRACION_CW_20_DEV' exactly when the query text holds
\* that name in some letter case, and 'default' otherwise; a database_key
\* that is supplied is the attribution as it is (one the registry does not
\* have is looked up as it is, and the lookup fails).  The result shows the
\* database of the attributed entry.
C14_AttributionFollowsQueryText ==
    LET NamesSecondary(text) ==
            \E off \in 0..Len(text) :
                /\ off + Len(SECONDARY_NAME) <= Len(text)
                /\ \A j \in 1..Len(SECONDARY_NAME) :
                      UpperChar(text[off + j]) = SECONDARY_NAME[j]
        Attributed(q, k) ==
            IF k # None THEN k[1]
            ELSE IF NamesSecondary(QueryText(q))
                 THEN "INTEGRACION_CW_20_DEV" ELSE "default"
        Shown(key) == DB_CONFIGS[key].database
        items == last.args.reports_data
        KeyOf(i) == Attributed(items[i].query,
                               IF "database_key" \in DOMAIN items[i]
                               THEN items[i].database_key ELSE None)
    IN
    /\ (/\ last.op = "create_report"
        /\ CountCalls(last.trace, "close") = 1)
       => LET key == Attributed(last.args.query, last.args.database_key) IN
          IF key \in DOMAIN DB_CONFIGS
          THEN /\ last.result.glyph = "check"
               /\ last.result.query_database = Shown(key)
          ELSE /\ last.result.glyph = "cross"
               /\ last.result.exc = "KeyError"
    /\ (last.op = "bulk_create_reports" /\ last.result.glyph = "chart")
       => /\ \A n \in DOMAIN last.result.successful :
                LET e == last.result.successful[n] IN
                /\ KeyOf(e.index) \in DOMAIN DB_CONFIGS
                /\ e.query_database = Shown(KeyOf(e.index))
          /\ \A n \in DOMAIN last.result.failed :
                LET e == last.result.failed[n] IN
                e.error = "KeyError" => KeyOf(e.index) \notin DOMAIN DB_CONFIGS

\* no database_key, and a query text that names the secondary database in
\* lower case
C14_Witness ==
    /\ last.op = "create_report"
    /\ last.args.database_key = None
    /\ last.args.query = "Q_sec"
    /\ ~Contains(QueryText("Q_sec"), SECONDARY_NAME)
    /\ last.result.glyph = "check"
    /\ last.result.query_database = "INTEGRACION_CW_20_DEV"

\* C15: with assign_report_to_role and bulk_assign_reports_to_roles
\* invocations running side by side, each on its own connection, the check
\* before the insert keeps the committed table at one row at most for every
\* (business_unit, report_prefix, role).
C15_ConcurrentAssignKeepsOneRow ==
    \A r \in BagToSet(assigned_reports) :
        BagCardinality(Matching(assigned_reports, r.business_unit,
                                r.report_prefix, {r.role})) <= 1

\* C16: the parameter-type map that create_report and bulk_create_reports
\* serialize and bind to the stored procedure maps 'business_unit' to
\* 'NVARCHAR(20)', whatever additional_params the caller supplies (one with
\* its own 'business_unit' key included).
C16_BusinessUnitTypeIsFixed ==
    last.op \in {"create_report", "bulk_create_reports"}
    => \A i \in 1..Len(last.trace) :
          (last.trace[i].call = "execute" /\ last.trace[i].stmt = "EXEC_SP")
          => LET pairs == last.trace[i].params[5].pairs IN
             /\ \E n \in DOMAIN pairs : pairs[n] = <<"business_unit", "NVARCHAR(20)">>
             /\ \A n \in DOMAIN pairs :
                   pairs[n][1] = "business_unit" => pairs[n][2] = "NVARCHAR(20)"

\* C17: an assignment write with an application_type other than
\* 'sales_force' or 'merchandising' writes nothing: every committed row of
\* assigned_reports has one of the two values (and not null), and every row
\* bound to an INSERT or value bound to an UPDATE by the four assignment
\* writers has one of them.
C17_ApplicationTypeIsEnumerated ==
    LET Valid == {Some(t) : t \in valid_app_types} IN
    /\ \A r \in BagToSet(assigned_reports) : r.application_type \in Valid
    /\ last.op \in {"assign_report_to_role", "bulk_assign_reports_to_roles"}
       => \A i \in 1..Len(last.trace) :
             (last.trace[i].call = "execute" /\ last.trace[i].stmt = "INSERT")
             => last.trace[i].params[1].application_type \in Valid

\* C18: the six mutation operations go: open the connection, execute the
\* statements, commit, close, format the result.  The first driver call is
\* the connect; an invocation issues one commit at most and no statement
\* after it; the close follows the commit; the result of a completed
\* mutation comes after the commit and the close.  bulk_create_reports and
\* bulk_assign_reports_to_roles, once connected, visit every item and then
\* commit exactly once, so what the items before a failing item executed is
\* committed with the rest.
C18_OneCommitAfterAllStatements ==
    LET trace == last.trace
        Calls(call) == {i \in 1..Len(trace) : trace[i].call = call}
        Mutations == {"create_report", "assign_report_to_role",
                      "update_report_assignment", "bulk_create_reports",
                      "bulk_assign_reports_to_roles",
                      "bulk_update_report_assignments"}
        Looping == {"bulk_create_reports", "bulk_assign_reports_to_roles"}
        items == IF last.op = "bulk_create_reports"
                 THEN last.args.reports_data ELSE last.args.assignments_data
        Visited == Len(last.result.successful) + Len(last.result.failed)
                   + IF last.op = "bulk_assign_reports_to_roles"
                     THEN Len(last.result.skipped) ELSE 0
    IN
    /\ last.op \in Mutations
       => /\ trace # <<>> => trace[1].call = "connect"
          /\ Cardinality(Calls("connect")) <= 1
          /\ Cardinality(Calls("commit")) <= 1
          /\ \A c \in Calls("commit") :
                /\ \A e \in Calls("execute") : e < c
                /\ \A x \in Calls("close") : x = c + 1
                /\ ~trace[c].raised => c + 1 \in Calls("close")
          /\ \A x \in Calls("close") : x - 1 \in Calls("commit") /\ x = Len(trace)
          /\ last.result.msg \in {"Reporte creado exitosamente",
                                  "Reporte asignado exitosamente",
                                  "Se encontraron múltiples roles. Reporte asignado exitosamente",
                                  "Asignación actualizada exitosamente",
                                  "Actualización masiva completada exitosamente",
                                  "Creación masiva de reportes completada",
                                  "Asignación masiva de reportes completada"}
             => /\ CountCalls(trace, "commit") = 1
                /\ CountCalls(trace, "close") = 1
    /\ (last.op \in Looping /\ CountCalls(trace, "connect") = 1)
       => /\ Cardinality(Calls("commit")) = 1
          /\ last.result.glyph = "chart"
             => /\ Visited = Len(items)
                /\ \A n \in DOMAIN last.result.successful :
                      LET e == last.result.successful[n] IN
                      /\ \E x \in Calls("execute") :
                            /\ ~trace[x].raised
                            /\ trace[x].stmt \in {"EXEC_SP", "INSERT"}
                      /\ IF last.op = "bulk_create_reports"
                         THEN e.report_prefix \in reports
                         ELSE Matching(assigned_reports, e.business_unit,
                                       e.report_prefix, {e.role_code}) # EmptyBag

\* a batch whose second item fails after its first item's statement ran:
\* the one commit comes after the loop and the first item's report stays
C18_Witness ==
    /\ last.op = "bulk_create_reports"
    /\ Len(last.args.reports_data) = 2
    /\ last.result.glyph = "chart"
    /\ Len(last.result.successful) = 1
    /\ last.result.successful[1].index = 1
    /\ Len(last.result.failed) = 1
    /\ last.result.failed[1].index = 2
    /\ CountCalls(last.trace, "commit") = 1
    /\ last.result.successful[1].report_prefix \in reports

\* C19 as stated: the multi-database operations visit their databases in
\* order (the registry, or the subset the caller gives), and a failure
\* against one database (its key cannot be resolved, or its connect, query
\* or close fails) is reported in that database's part of the text and the
\* other databases are still queried: every database of the list that the
\* registry has gets its connection attempt, in the list's order.
C19_Original ==
    LET trace == last.trace
        keys == IF last.op = "bulk_search_tables_in_databases"
                   /\ last.args.database_keys # None
                THEN last.args.database_keys[1] ELSE DB_KEYS
        Known(k) == k \in DOMAIN DB_CONFIGS
        IsConnect(e) == e.call = "connect"
        connects == SelectSeq(trace, IsConnect)
        IsError(l) == l.tag = "db_error"
        Requested ==
            IF last.op = "search_table_in_all_databases" THEN TRUE
            ELSE last.args.table_names # <<>>
    IN
    (/\ last.op \in {"search_table_in_all_databases",
                     "get_table_structures_across_databases",
                     "bulk_search_tables_in_databases"}
     /\ Requested)
    => /\ [i \in 1..Len(connects) |-> connects[i].key] = SelectSeq(keys, Known)
       /\ last.result.glyph = "magnifier"
       /\ Len(SelectSeq(last.result.body, IsError))
            = Cardinality({i \in 1..Len(trace) : trace[i].raised})
              + Cardinality({i \in 1..Len(keys) : ~Known(keys[i])})

\* C19 amended: the multi-database operations visit their databases in
\* order (the registry, or the subset the caller gives), and a driver
\* failure against one database (connect, query or close) is reported in
\* that database's part of the text and every other database of the list
\* still gets its connection attempt, in the list's order.  A subset that
\* names a key the registry does not have is rejected as a whole with the
\* error-prefixed text naming the invalid keys, before any database is
\* contacted.
C19_DriverFailureDoesNotStopOtherDatabases ==
    LET trace == last.trace
        keys == IF last.op = "bulk_search_tables_in_databases"
                   /\ last.args.database_keys # None
                THEN last.args.database_keys[1] ELSE DB_KEYS
        Known(k) == k \in DOMAIN DB_CONFIGS
        IsConnect(e) == e.call = "connect"
        connects == SelectSeq(trace, IsConnect)
        IsError(l) == l.tag = "db_error"
        Requested ==
            IF last.op = "search_table_in_all_databases" THEN TRUE
            ELSE last.args.table_names # <<>>
    IN
    (/\ last.op \in {"search_table_in_all_databases",
                     "get_table_structures_across_databases",
                     "bulk_search_tables_in_databases"}
     /\ Requested)
    => IF \A n \in 1..Len(keys) : Known(keys[n])
       THEN /\ [i \in 1..Len(connects) |-> connects[i].key] = keys
            /\ last.result.glyph = "magnifier"
            /\ Len(SelectSeq(last.result.body, IsError))
                 = Cardinality({i \in 1..Len(trace) : trace[i].raised})
       ELSE /\ last.result.glyph = "cross"
            /\ last.result.msg = "Bases de datos no válidas"
            /\ trace = <<>>

\* the connection to the first database of the registry fails: its part of
\* the text says so, and the second database is queried
C19_Witness ==
    /\ last.op = "search_table_in_all_databases"
    /\ Len(last.trace) >= 3
    /\ last.trace[1].call = "connect" /\ last.trace[1].raised
    /\ last.trace[1].key = DB_KEYS[1]
    /\ last.trace[2].call = "connect" /\ ~last.trace[2].raised
    /\ last.trace[2].key = DB_KEYS[2]
    /\ last.trace[3].call = "execute" /\ ~last.trace[3].raised
    /\ last.result.body[1].tag = "db_error"
    /\ last.result.body[1].db = DB_CONFIGS[DB_KEYS[1]].database

\* C20: list_tables, when its query gives no rows (a schema without base
\* tables, or one that does not exist), answers with a not-found message of
\* its own and not with the listing header over an empty list.
C20_EmptySchemaIsNotFound ==
    (/\ last.op = "list_tables"
     /\ last.args.database_key \in DOMAIN DB_CONFIGS
     /\ ~Raised(last.trace)
     /\ SelectTables(last.args.database_key, last.args.schema) = <<>>)
    => /\ last.result.glyph # "books"
       /\ last.result.msg # "Tablas disponibles en el esquema"

\* C21: update_report_assignment and bulk_update_report_assignments look for
\* the assignment before they update: called with role code(s) when no row
\* of assigned_reports has the (business_unit, report_prefix, role code[s]),
\* they execute no UPDATE, attempt no commit and leave the table as it was,
\* whatever fields are supplied, and (when no driver call fails) the text is
\* the error-prefixed not-found string.
C21_UpdateChecksExistenceFirst ==
    [][LET a == last'.args
           codes == IF last'.op = "update_report_assignment"
                    THEN {a.role_code} ELSE Range(a.role_codes)
           NoRow == \A r \in BagToSet(assigned_reports) :
                        ~(/\ r.business_unit = a.business_unit
                          /\ r.report_prefix = a.report_prefix
                          /\ r.role \in codes)
       IN
       (/\ last'.op \in {"update_report_assignment", "bulk_update_report_assignments"}
        /\ codes # {}
        /\ NoRow)
       => /\ Executions(last'.trace, "UPDATE") = 0
          /\ Attempts(last'.trace, "commit") = 0
          /\ assigned_reports' = assigned_reports
          /\ ~Raised(last'.trace)
             => /\ last'.result.glyph = "cross"
                /\ last'.result.msg
                     = IF last'.op = "update_report_assignment"
                       THEN "No existe una asignación"
                       ELSE "No existen asignaciones"]_vars

\* an update with fields supplied, for a role code the report is not
\* assigned to while it is assigned to another one
C21_Witness ==
    /\ last.op = "update_report_assignment"
    /\ update_fields(last.args.fields) # <<>>
    /\ assigned_reports # EmptyBag
    /\ last.result.glyph = "cross"
    /\ last.result.msg = "No existe una asignación"
    /\ Executions(last.trace, "SELECT_COUNT") = 1
    /\ Executions(last.trace, "UPDATE") = 0

\* C22: a successful update_report_assignment sets, in the row with the
\* (business_unit, report_prefix, role_code) of the call, each column whose
\* argument is not null to that argument, and leaves the columns whose
\* argument is null, the key columns and every other row as they were.
C22_UpdateTouchesSuppliedColumnsOnly ==
    [][LET a == last'.args
           Hit(r) == /\ r.business_unit = a.business_unit
                     /\ r.report_prefix = a.report_prefix
                     /\ r.role = a.role_code
           Supplied == {c \in DOMAIN a.fields : a.fields[c] # None}
           New(r) == IF Hit(r)
                     THEN [c \in DOMAIN r |->
                              IF c \in Supplied THEN a.fields[c] ELSE r[c]]
                     ELSE r
           old == BagToSet(assigned_reports)
       IN
       (/\ last'.op = "update_report_assignment"
        /\ last'.result.msg = "Asignación actualizada exitosamente")
       => /\ Supplied # {}
          /\ \E r \in old : Hit(r)
          /\ BagToSet(assigned_reports') = {New(r) : r \in old}
          /\ \A x \in BagToSet(assigned_reports') :
                assigned_reports'[x]
                  = SumOver({r \in old : New(r) = x}, assigned_reports)]_vars

\* the update gave a row its application type and order and kept its tag,
\* while the report has a row for another role as well
C22_Witness ==
    /\ last.op = "update_report_assignment"
    /\ last.result.msg = "Asignación actualizada exitosamente"
    /\ last.args.fields.custom_tag = None
    /\ last.result.body = <<"application_type", "order">>
    /\ \E r \in BagToSet(assigned_reports) :
          /\ r.role = last.args.role_code
          /\ r.application_type = last.args.fields.application_type
          /\ r.custom_tag = Some("tag")
    /\ \E r \in BagToSet(assigned_reports) : r.role # last.args.role_code

\* C23: when bulk_update_report_assignments reports success, every role code
\* of role_codes had an assignment of the (report_prefix, business_unit)
\* before the call, and after it each of those assignments carries the
\* supplied field values.
C23_BulkUpdateReachesEveryRole ==
    [][LET a == last'.args
           Supplied == {c \in DOMAIN a.fields : a.fields[c] # None}
           RowsOf(table, code) ==
               {r \in BagToSet(table) : /\ r.business_unit = a.business_unit
                                        /\ r.report_prefix = a.report_prefix
                                        /\ r.role = code}
       IN
       (/\ last'.op = "bulk_update_report_assignments"
        /\ last'.result.msg = "Actualización masiva completada exitosamente")
       => \A n \in DOMAIN a.role_codes :
             /\ RowsOf(assigned_reports, a.role_codes[n]) # {}
             /\ RowsOf(assigned_reports', a.role_codes[n]) # {}
             /\ \A r \in RowsOf(assigned_reports', a.role_codes[n]) :
                   \A c \in Supplied : r[c] = a.fields[c]]_vars

\* C24: when the role description matches more than one role that is not
\* sys_admin, assign_report_to_role and bulk_assign_reports_to_roles take
\* one of the matching roles (the first row of the role query) for the
\* existence check and for the insert, and the text carries the
\* multiple-roles warning for the call or the item; when one role matches,
\* the text carries no such warning.
C24_MultipleRolesAreWarned ==
    LET Matches(bu, d) ==
            {DefaultRoles[n].code : n \in
                {m \in DOMAIN DefaultRoles :
                    /\ DefaultRoles[m].business_unit = bu
                    /\ Contains(DefaultRoles[m].description, d)
                    /\ DefaultRoles[m].application_type # "sys_admin"}}
        trace == last.trace
        items == last.args.assignments_data
        Warned(e) == "warning" \in DOMAIN e /\ e.warning
        Told(list) ==
            \A n \in DOMAIN list :
                LET e == list[n]
                    m == Matches(items[e.index].business_unit,
                                 items[e.index].role_description)
                IN  /\ e.role_code \in m
                    /\ Warned(e) <=> Cardinality(m) > 1
    IN
    /\ (last.op = "assign_report_to_role" /\ ~Raised(trace))
       => LET m == Matches(last.args.business_unit, last.args.role_description) IN
          /\ Cardinality(m) > 1
             => /\ last.result.role_code \in m
                /\ \A i \in 1..Len(trace) :
                      /\ trace[i].stmt = "SELECT_COUNT"
                         => trace[i].params[3] = last.result.role_code
                      /\ trace[i].stmt = "INSERT"
                         => trace[i].params[1].role = last.result.role_code
                /\ last.result.msg
                     = "Se encontraron múltiples roles. Reporte asignado exitosamente"
          /\ Cardinality(m) = 1
             => last.result.msg
                  # "Se encontraron múltiples roles. Reporte asignado exitosamente"
    /\ (last.op = "bulk_assign_reports_to_roles" /\ last.result.glyph = "chart")
       => Told(last.result.successful) /\ Told(last.result.skipped)

\* C25: test_query.  A query without '@business_unit' gets the placeholder
\* warning, with nothing raised and no connection opened.  Otherwise every
\* occurrence of the placeholder is replaced by the business_unit between
\* single quotes and the resulting text is what is executed; when the
\* query gives n >= 1 rows the text shows min(n, 5) sample rows and the
\* total n.
C25_TestQuerySubstitutesAndSamples ==
    LET q == QueryText(last.args.query)
        P == PLACEHOLDER
        value == <<"'", last.args.business_unit, "'">>
        At(s, p, i) == i + Len(p) - 1 <= Len(s) /\ SubSeq(s, i, i + Len(p) - 1) = p
        occ == {i \in 1..Len(q) : At(q, P, i)}
        \* where position i of the query lands in the substituted text
        Pos(i) == i - (Len(P) - Len(value)) * Cardinality({j \in occ : j < i})
        Inside(i) == \E j \in occ : j < i /\ i < j + Len(P)
        executed == {i \in 1..Len(last.trace) : last.trace[i].call = "execute"}
    IN
    last.op = "test_query"
    => IF occ = {}
       THEN /\ last.exc = NoExc
            /\ last.result.glyph = "warning"
            /\ last.result.msg = "La query debe incluir el parámetro @business_unit"
            /\ last.trace = <<>>
       ELSE /\ \A e \in executed :
                  LET text == last.trace[e].text IN
                  /\ Len(text) = Len(q) - (Len(P) - Len(value)) * Cardinality(occ)
                  /\ \A i \in occ : At(text, value, Pos(i))
                  /\ \A i \in 1..Len(q) :
                        (i \notin occ /\ ~Inside(i)) => text[Pos(i)] = q[i]
            /\ (/\ last.args.database_key \in DOMAIN DB_CONFIGS
                /\ ~Raised(last.trace))
               => /\ Cardinality(executed) = 1
                  /\ last.result.glyph = "check"
                  /\ last.args.nrows >= 1
                     => /\ Len(last.result.body)
                             = IF last.args.nrows <= 5 THEN last.args.nrows ELSE 5
                        /\ \A n \in DOMAIN last.result.body :
                              last.result.body[n].tag = "row"
                        /\ last.result.total = last.args.nrows

\* a query with two placeholders that returned more than five rows
C25_Witness ==
    /\ last.op = "test_query"
    /\ last.args.query = "Q_two"
    /\ last.args.nrows > 5
    /\ last.result.glyph = "check"
    /\ Len(last.result.body) = 5
    /\ last.result.total = last.args.nrows
    /\ last.trace[2].text
         = <<"'", last.args.business_unit, "'", "=", "'", last.args.business_unit, "'">>

\* C26: when create_report returns an error-prefixed text, no call of the
\* stored procedure made by that invocation has been committed: a procedure
\* call that was executed and committed is answered with the success text,
\* whatever the database_key argument is (a key the registry does not have
\* included).  Stated for invocations in which no driver call fails.
C26_ErrorMeansNothingCommitted ==
    LET Ran == \E i \in 1..Len(last.trace) :
                   /\ last.trace[i].call = "execute"
                   /\ last.trace[i].stmt = "EXEC_SP"
                   /\ ~last.trace[i].raised
    IN
    (last.op = "create_report" /\ ~Raised(last.trace))
    => /\ last.result.glyph = "cross" => ~(Ran /\ Committed(last.trace))
       /\ (Ran /\ Committed(last.trace))
          => /\ last.result.glyph = "check"
             /\ last.result.msg = "Reporte creado exitosamente"

\* C27: in a bulk_create_reports batch the reported success count equals the
\* number of stored-procedure calls that ran without error and were committed
\* by the batch, and an item listed as failed has not had its procedure call
\* run successfully (an item whose database_key is absent from the registry
\* included).  Stated for batches in which no driver call fails.
C27_CreatedCountIsCommittedCalls ==
    LET Ran == {i \in 1..Len(last.trace) :
                   /\ last.trace[i].call = "execute"
                   /\ last.trace[i].stmt = "EXEC_SP"
                   /\ ~last.trace[i].raised}
    IN
    (/\ last.op = "bulk_create_reports"
     /\ last.result.glyph = "chart"
     /\ ~Raised(last.trace))
    => /\ last.result.total_created = Cardinality(Ran)
       /\ Len(last.result.successful) = Cardinality(Ran)
       /\ Cardinality(Ran) + Len(last.result.failed) = Len(last.args.reports_data)

\* C28: an operation that opened a connection and returns without any
\* exception having been raised (the early returns for a table that is not
\* found, no matching role, an assignment that already exists, an assignment
\* that is not found, no fields to update and a query with zero rows are
\* among these returns) has closed the connection: no connection opened by
\* the invocation is left open.
C28_EarlyReturnClosesConnection ==
    (/\ last.op \in {"get_table_structure", "test_query", "assign_report_to_role",
                     "update_report_assignment", "bulk_update_report_assignments"}
     /\ last.exc = NoExc
     /\ last.result.exc = NoExc
     /\ ~Raised(last.trace)
     /\ \E i \in 1..Len(last.trace) : last.trace[i].call = "connect")
    => \A i \in 1..Len(last.trace) :
           last.trace[i].call = "connect"
           => \E j \in (i + 1)..Len(last.trace) : last.trace[j].call = "close"

\* C29: a bulk_create_reports or bulk_assign_reports_to_roles batch that
\* reports its counts has placed every item of the batch in exactly one of
\* its outcome lists (created or failed; created, skipped or failed), once,
\* under the item's 1-based position in the input and with the item's
\* report_prefix, each list in input order; the reported counts sum to the
\* number of items of the batch.
C29_EveryItemHasOneOutcome ==
    LET r == last.result
        items == IF last.op = "bulk_create_reports"
                 THEN last.args.reports_data ELSE last.args.assignments_data
        lists == IF last.op = "bulk_create_reports"
                 THEN <<r.successful, r.failed>>
                 ELSE <<r.successful, r.skipped, r.failed>>
        created == IF last.op = "bulk_create_reports"
                   THEN r.total_created ELSE r.total_inserted
        Places(n) == {p \in (1..Len(lists)) \X (1..MaxItems) :
                         /\ p[2] <= Len(lists[p[1]])
                         /\ lists[p[1]][p[2]].index = n}
        Prefix(d) == IF "report_prefix" \in DOMAIN d THEN d.report_prefix ELSE "N/A"
    IN
    (/\ last.op \in {"bulk_create_reports", "bulk_assign_reports_to_roles"}
     /\ last.result.glyph = "chart")
    => /\ \A n \in 1..Len(items) :
              /\ Cardinality(Places(n)) = 1
              /\ \A p \in Places(n) :
                     lists[p[1]][p[2]].report_prefix = Prefix(items[n])
       /\ \A l \in 1..Len(lists) :
              /\ Len(lists[l]) <= Len(items)
              /\ \A a, b \in 1..Len(lists[l]) :
                     /\ lists[l][a].index \in 1..Len(items)
                     /\ a < b => lists[l][a].index < lists[l][b].index
       /\ created = Len(r.successful)
       /\ created + (IF Len(lists) = 3 THEN Len(r.skipped) ELSE 0) + Len(r.failed)
              = Len(items)

C29_Witness ==
    /\ last.op = "bulk_assign_reports_to_roles"
    /\ last.result.glyph = "chart"
    /\ Len(last.args.assignments_data) = 2
    /\ Len(last.result.failed) = 1
    /\ Len(last.result.successful) = 1
    /\ last.result.failed[1].index = 1
    /\ last.result.successful[1].index = 2

\* C30: within one bulk_assign_reports_to_roles batch at most one row is
\* inserted per (business_unit, report_prefix, role code): the existence
\* check of a later item for a triple an earlier item of the batch has
\* inserted counts that row, not yet committed, on the shared connection,
\* so of two items that resolve to the same triple one is inserted and the
\* other, if its statements run, is listed as skipped.
C30_BatchInsertsTripleOnce ==
    LET t == last.trace
        r == last.result
        Triple(row) == <<row.business_unit, row.report_prefix, row.role>>
        Inserted(i) == /\ t[i].call = "execute" /\ t[i].stmt = "INSERT"
                       /\ ~t[i].raised
        Checked(i) == /\ t[i].call = "execute" /\ t[i].stmt = "SELECT_COUNT"
                      /\ ~t[i].raised
        Key(e) == <<e.business_unit, e.report_prefix, e.role_code>>
    IN
    last.op = "bulk_assign_reports_to_roles"
    => /\ \A i, j \in 1..Len(t) :
              (Inserted(i) /\ Inserted(j) /\ i # j)
              => Triple(t[i].params[1]) # Triple(t[j].params[1])
       /\ \A i, j \in 1..Len(t) :
              (Inserted(i) /\ Checked(j) /\ i < j
                  /\ t[j].params = Triple(t[i].params[1]))
              => t[j].rows >= 1
       /\ r.glyph = "chart"
          => /\ \A a, b \in 1..Len(r.successful) :
                    a # b => Key(r.successful[a]) # Key(r.successful[b])
             /\ \A a \in 1..Len(r.successful) :
                    \A n \in (r.successful[a].index + 1)..Len(last.args.assignments_data) :
                        \A b \in 1..Len(r.failed) :
                            (/\ r.failed[b].index = n
                             /\ last.args.assignments_data[n]
                                    = last.args.assignments_data[r.successful[a].index])
                            => \E k \in 1..Len(t) : t[k].raised

C30_Witness ==
    /\ last.op = "bulk_assign_reports_to_roles"
    /\ last.result.glyph = "chart"
    /\ ~Raised(last.trace)
    /\ Len(last.args.assignments_data) = 2
    /\ Len(last.result.successful) = 1
    /\ Len(last.result.skipped) = 1
    /\ last.result.successful[1].index = 1
    /\ last.result.skipped[1].index = 2
    /\ last.result.skipped[1].role_code = last.result.successful[1].role_code
    /\ Cardinality({i \in 1..Len(last.trace) :
                       last.trace[i].stmt = "INSERT" /\ ~last.trace[i].raised}) = 1
====
